---------------------------- MODULE Spec2Model ----------------------------
(***************************************************************************)
(* Model of the valuation engine of corporate_reports                      *)
(* (src/src/corporate_reports/valuation.py): the input normalizer          *)
(* ValuationInput.from_dict, the ratio functions calc_*, the DCF scenario  *)
(* procedure _calc_dcf_scenario and the integration calculate_valuation.   *)
(*                                                                         *)
(* Numbers.  Python floats are modelled as exact rationals <<n, d>> with   *)
(* d > 0 and gcd(n, d) = 1; Python's None is the pair <<0, 0>>.  A raw     *)
(* record (the dict handed to from_dict) is a function whose DOMAIN is the *)
(* set of keys that are present, so that data[k], data.get(k) and          *)
(* data.get(k, default) are told apart as in the code.  Values of a raw    *)
(* record are numbers (shares_unit: a string, dcf_years: an integer).      *)
(*                                                                         *)
(* Exceptions.  A call's outcome is [err, ret]: err names the exception    *)
(* class raised ("none" when the call returns) and ret is <<v>> when the   *)
(* call returns v and << >> when it raises.                                *)
(*                                                                         *)
(* Files and callers.  file is the state of the input file load_input is   *)
(* handed ("none" when from_dict is called on a dict directly), and log is *)
(* the caller's record of the calculate_valuation invocations made so far, *)
(* each with its input and its outcome.                                    *)
(*                                                                         *)
(* Filing retrieval client (src/src/corporate_reports/edinet.py).  now is  *)
(* the time in hundredths of a second and requests the times at which a    *)
(* remote request was sent.  A str is a sequence of one-character strings; *)
(* None where a str is expected is NoText.                                 *)
(***************************************************************************)
EXTENDS Integers, Sequences, FiniteSets

VARIABLES raw, pc, inp, err, res, call, ret, file, log, now, requests

vars == <<raw, pc, inp, err, res, call, ret, file, log, now, requests>>

(***************************************************************************)
(* Evaluation order.  Python evaluates an argument once, before the call.  *)
(* Bind and Bind2 apply an operator to the values of its arguments, which  *)
(* keeps the evaluation of nested arithmetic linear in its size.           *)
(***************************************************************************)
Bind(F(_), x) == CHOOSE r \in {F(v) : v \in {x}} : TRUE

Bind2(F(_, _), x, y) == CHOOSE r \in {F(u, v) : u \in {x}, v \in {y}} : TRUE

(***************************************************************************)
(* Rational arithmetic                                                     *)
(***************************************************************************)
RECURSIVE GCD(_, _)
GCD(a, b) == IF b = 0 THEN a ELSE Bind2(GCD, b, a % b)

IAbs(x) == IF x < 0 THEN -x ELSE x

\* n/d in lowest terms with a positive denominator (d # 0)
NormOf(n, d) ==
    LET s == IF d < 0 THEN -1 ELSE 1
    IN  Bind(LAMBDA g : <<(s * n) \div g, (s * d) \div g>>, GCD(IAbs(n), IAbs(d)))

Norm(n, d) == Bind2(NormOf, n, d)

R(n, d) == Norm(n, d)
I(n) == <<n, 1>>
Zero == <<0, 1>>
One == <<1, 1>>
None == <<0, 0>>

IsNone(x) == x[2] = 0

RNeg(a) == Bind(LAMBDA v : <<-v[1], v[2]>>, a)

SumOf(a, b) ==
    Bind(LAMBDA g : Norm(a[1] * (b[2] \div g) + b[1] * (a[2] \div g),
                         (a[2] \div g) * b[2]),
         GCD(a[2], b[2]))

RAdd(a, b) == Bind2(SumOf, a, b)

RSub(a, b) == RAdd(a, RNeg(b))

\* cross-cancelled product, so that the factors stay small
ProductOf(a, b) ==
    Bind2(LAMBDA g1, g2 : Norm((a[1] \div g1) * (b[1] \div g2),
                               (a[2] \div g2) * (b[2] \div g1)),
          GCD(IAbs(a[1]), b[2]), GCD(IAbs(b[1]), a[2]))

RMul(a, b) == Bind2(ProductOf, a, b)

\* a / b for b # 0 (the callers model ZeroDivisionError before dividing)
RDiv(a, b) == Bind2(LAMBDA u, v : ProductOf(u, NormOf(v[2], v[1])), a, b)

RLt(a, b) == Bind2(LAMBDA u, v : u[1] * v[2] < v[1] * u[2], a, b)
RLe(a, b) == Bind2(LAMBDA u, v : u[1] * v[2] <= v[1] * u[2], a, b)
RAbs(a) == Bind(LAMBDA v : <<IAbs(v[1]), v[2]>>, a)

\* a ** k for an integer k (k < 0 needs a # 0)
RECURSIVE RPow(_, _)
RPow(a, k) ==
    IF k = 0 THEN One
    ELSE IF k < 0 THEN RDiv(One, RPow(a, -k))
    ELSE RMul(a, RPow(a, k - 1))

RECURSIVE IPow10(_)
IPow10(k) == IF k = 0 THEN 1 ELSE 10 * IPow10(k - 1)

\* floor(q * 10^k) = m with remainder f/d in [0, 1), then ties go to even
RECURSIVE RoundDigits(_, _, _, _)
RoundDigits(m, f, d, k) ==
    IF k = 0
    THEN IF 2 * f > d \/ (2 * f = d /\ m % 2 = 1) THEN m + 1 ELSE m
    ELSE Bind2(LAMBDA m1, f1 : RoundDigits(m1, f1, d, k - 1),
               10 * m + ((10 * f) \div d), (10 * f) % d)

\* Python round(q, digits): nearest multiple of 10^-digits, half to even
RoundHalfEven(q, digits) ==
    Bind(LAMBDA m : Norm(RoundDigits(m, q[1] - m * q[2], q[2], digits), IPow10(digits)),
         q[1] \div q[2])

Round(q, digits) == Bind(LAMBDA v : RoundHalfEven(v, digits), q)

(***************************************************************************)
(* Outcomes of a call                                                      *)
(***************************************************************************)
NoError == [kind |-> "none", names |-> {}]

\* the call returns v
Return(v) == [err |-> NoError, ret |-> <<v>>]

\* the call raises an exception of class kind whose message mentions names
Raise(kind, names) == [err |-> [kind |-> kind, names |-> names], ret |-> << >>]

Returned(o) == o.err.kind = "none"

(***************************************************************************)
(* Raw records (dict)                                                      *)
(***************************************************************************)
Has(data, k) == k \in DOMAIN data

\* data.get(k): None when the key is absent
Get(data, k) == IF Has(data, k) THEN data[k] ELSE None

\* a plausible slip: data.get(k) or default, which also replaces a supplied 0
GetDefault_or(data, k, default) ==
    IF ~Has(data, k) THEN default
    ELSE IF k = "shares_unit" THEN data[k]
    ELSE IF k = "dcf_years" THEN (IF data[k] = 0 THEN default ELSE data[k])
    ELSE IF data[k] = Zero THEN default ELSE data[k]

\* data.get(k, default)
GetDefault(data, k, default) == IF Has(data, k) THEN data[k] ELSE default

\* the keys read with data[k], in the order the constructor call evaluates them
RequiredOrder ==
    <<"stock_price", "bps", "revenue", "operating_profit", "net_income",
      "operating_cf", "fcf", "net_cash", "ebitda", "net_assets">>

RequiredKeys == {RequiredOrder[i] : i \in 1..Len(RequiredOrder)}

\* data[k] of the first required key that is absent raises KeyError(k)
FirstMissing(data) ==
    LET i == CHOOSE j \in 1..Len(RequiredOrder) :
                 /\ ~Has(data, RequiredOrder[j])
                 /\ \A h \in 1..(j - 1) : Has(data, RequiredOrder[h])
    IN  RequiredOrder[i]

RESCALE_THRESHOLD == 1000000
RESCALE_DIVISOR == 1000
THOUSAND_SHARES == 1000

normalize_millions_ge(val) ==
    IF IsNone(val) THEN None
    ELSE IF RLe(I(RESCALE_THRESHOLD), RAbs(val)) THEN RDiv(val, I(RESCALE_DIVISOR))
    ELSE val

normalize_millions(val) ==
    IF IsNone(val) THEN None
    ELSE IF RLt(I(RESCALE_THRESHOLD), RAbs(val)) THEN RDiv(val, I(RESCALE_DIVISOR))
    ELSE val

DEFAULT_TAX_RATE == R(3, 10)
DEFAULT_DISCOUNT_RATE == R(1, 10)
DEFAULT_GROWTH_MIDDLE == R(1, 20)
DEFAULT_GROWTH_STRONG == R(1, 10)
DEFAULT_DCF_YEARS == 5

\* lines 52-60: the share count before unit conversion (None: neither field)
resolve_shares_outstanding_first(data) ==
    LET outstanding == Get(data, "shares_outstanding")
        treasury == GetDefault(data, "treasury_shares", Zero)
    IN  IF ~IsNone(outstanding) THEN RSub(outstanding, treasury)
        ELSE Get(data, "shares_outstanding_ex_treasury")

resolve_shares(data) ==
    LET shares_raw == Get(data, "shares_outstanding_ex_treasury")
        outstanding == Get(data, "shares_outstanding")
        treasury == GetDefault(data, "treasury_shares", Zero)
    IN  IF ~IsNone(shares_raw) THEN shares_raw
        ELSE IF IsNone(outstanding) THEN None
        ELSE RSub(outstanding, treasury)

\* lines 62-67
convert_shares_any_unit(data, shares_raw) ==
    IF Has(data, "shares_unit") THEN RMul(shares_raw, I(THOUSAND_SHARES)) ELSE shares_raw

convert_shares(data, shares_raw) ==
    LET shares_unit == GetDefault(data, "shares_unit", "shares")
    IN  IF shares_unit = "thousands" THEN RMul(shares_raw, I(THOUSAND_SHARES))
        ELSE shares_raw

from_dict(data) ==
    LET shares_raw == resolve_shares(data)
    IN  IF IsNone(shares_raw)
        THEN Raise("ValuationError",
                   {"shares_outstanding_ex_treasury", "shares_outstanding"})
        ELSE IF \E k \in RequiredKeys : ~Has(data, k)
        THEN Raise("KeyError", {FirstMissing(data)})
        ELSE Return(
          [stock_price |-> data["stock_price"],
           shares |-> convert_shares(data, shares_raw),
           bps |-> data["bps"],
           eps_actual |-> Get(data, "eps_actual"),
           eps_forecast |-> Get(data, "eps_forecast"),
           dividend_annual |-> Get(data, "dividend_annual"),
           revenue |-> data["revenue"],
           operating_profit |-> data["operating_profit"],
           net_income |-> data["net_income"],
           operating_cf |-> normalize_millions(data["operating_cf"]),
           fcf |-> normalize_millions(data["fcf"]),
           net_cash |-> normalize_millions(data["net_cash"]),
           ebitda |-> normalize_millions(data["ebitda"]),
           net_assets |-> normalize_millions(data["net_assets"]),
           effective_tax_rate |-> GetDefault(data, "effective_tax_rate", DEFAULT_TAX_RATE),
           discount_rate |-> GetDefault(data, "discount_rate", DEFAULT_DISCOUNT_RATE),
           liquidation_value_per_share |-> Get(data, "liquidation_value_per_share"),
           dcf_growth_middle |-> GetDefault(data, "dcf_growth_middle", DEFAULT_GROWTH_MIDDLE),
           dcf_growth_strong |-> GetDefault(data, "dcf_growth_strong", DEFAULT_GROWTH_STRONG),
           dcf_years |-> GetDefault(data, "dcf_years", DEFAULT_DCF_YEARS)])

(***************************************************************************)
(* Ratio and return metrics (pure functions, lines 116-187)                *)
(***************************************************************************)
MILLION == 1000000

\* a plausible slip: the market cap rounded before it is used
calc_market_cap_rounded(price, shares) ==
    Round(RDiv(RMul(price, shares), I(MILLION)), 2)

calc_market_cap(price, shares) == RDiv(RMul(price, shares), I(MILLION))

calc_per_zero_for_missing(price, eps) ==
    IF IsNone(eps) \/ eps = Zero THEN Zero ELSE RDiv(price, eps)

calc_per(price, eps) ==
    IF IsNone(eps) \/ eps = Zero THEN None ELSE RDiv(price, eps)

calc_pbr(price, bps) ==
    IF bps = Zero THEN Raise("ValuationError", {"bps"}) ELSE Return(RDiv(price, bps))

calc_pcr(market_cap, operating_cf) ==
    IF IsNone(operating_cf) \/ RLe(operating_cf, Zero) THEN None
    ELSE RDiv(market_cap, operating_cf)

calc_psr(market_cap, revenue) ==
    IF IsNone(revenue) \/ RLe(revenue, Zero) THEN None
    ELSE RDiv(market_cap, revenue)

\* a plausible slip: a zero dividend treated like a missing one
calc_dividend_yield_falsy(dividend, price) ==
    IF IsNone(dividend) \/ dividend = Zero \/ price = Zero THEN None
    ELSE RDiv(dividend, price)

calc_dividend_yield(dividend, price) ==
    IF IsNone(dividend) \/ price = Zero THEN None ELSE RDiv(dividend, price)

\* a plausible slip: net cash added to the market cap, not subtracted
calc_ev_ebitda_adding_net_cash(market_cap, net_cash, ebitda) ==
    IF IsNone(ebitda) \/ RLe(ebitda, Zero) THEN None
    ELSE RDiv(RAdd(market_cap, net_cash), ebitda)

calc_ev_ebitda(market_cap, net_cash, ebitda) ==
    IF IsNone(ebitda) \/ RLe(ebitda, Zero) THEN None
    ELSE RDiv(RSub(market_cap, net_cash), ebitda)

calc_nopat(operating_profit, tax_rate) == RMul(operating_profit, RSub(One, tax_rate))

calc_invested_capital(net_assets, net_cash) == RSub(net_assets, net_cash)

\* a plausible slip: only a zero invested capital is refused
calc_roic_zero_guard_only(nopat, invested_capital) ==
    IF IsNone(invested_capital) \/ invested_capital = Zero THEN None
    ELSE RDiv(nopat, invested_capital)

calc_roic(nopat, invested_capital) ==
    IF IsNone(invested_capital) \/ RLe(invested_capital, Zero) THEN None
    ELSE RDiv(nopat, invested_capital)

\* a plausible slip: the premium (price - value) instead of the discount
calc_liquidation_premium(liquidation_value_per_share, price) ==
    IF IsNone(liquidation_value_per_share) \/ liquidation_value_per_share = Zero
    THEN None
    ELSE RDiv(RSub(price, liquidation_value_per_share), liquidation_value_per_share)

calc_liquidation_discount(liquidation_value_per_share, price) ==
    IF IsNone(liquidation_value_per_share) \/ liquidation_value_per_share = Zero
    THEN None
    ELSE RDiv(RSub(liquidation_value_per_share, price), liquidation_value_per_share)

(***************************************************************************)
(* DCF scenario procedure (lines 190-236)                                  *)
(***************************************************************************)
\* a plausible slip: the cash flow is compounded with 1 - growth_rate
RECURSIVE dcf_loop_shrinking(_, _, _, _, _, _)
dcf_loop_shrinking(year, years, projected_fcf, pv_fcfs, growth_rate, discount_rate) ==
    IF year > years THEN <<projected_fcf, pv_fcfs>>
    ELSE Bind(LAMBDA p :
                Bind(LAMBDA pv : dcf_loop_shrinking(year + 1, years, p, pv, growth_rate,
                                                    discount_rate),
                     RAdd(pv_fcfs, RDiv(p, RPow(RAdd(One, discount_rate), year)))),
              RMul(projected_fcf, RSub(One, growth_rate)))

\* a plausible slip: range(1, years), which leaves out the last year
RECURSIVE dcf_loop_one_short(_, _, _, _, _, _)
dcf_loop_one_short(year, years, projected_fcf, pv_fcfs, growth_rate, discount_rate) ==
    IF year >= years THEN <<projected_fcf, pv_fcfs>>
    ELSE Bind(LAMBDA p :
                Bind(LAMBDA pv : dcf_loop_one_short(year + 1, years, p, pv, growth_rate,
                                                    discount_rate),
                     RAdd(pv_fcfs, RDiv(p, RPow(RAdd(One, discount_rate), year)))),
              RMul(projected_fcf, RAdd(One, growth_rate)))

\* the loop of lines 216-218, from iteration `year` on: <<projected_fcf, pv_fcfs>>
RECURSIVE dcf_loop(_, _, _, _, _, _)
dcf_loop(year, years, projected_fcf, pv_fcfs, growth_rate, discount_rate) ==
    IF year > years THEN <<projected_fcf, pv_fcfs>>
    ELSE Bind(LAMBDA p :
                Bind(LAMBDA pv : dcf_loop(year + 1, years, p, pv, growth_rate,
                                          discount_rate),
                     RAdd(pv_fcfs, RDiv(p, RPow(RAdd(One, discount_rate), year)))),
              RMul(projected_fcf, RAdd(One, growth_rate)))

\* lines 226-236.  equity_value * 1_000_000 / shares is evaluated as
\* equity_value * (1_000_000 / shares): the same rational, smaller factors.
dcf_result(label, growth_rate, terminal_value, equity_value, shares, price) ==
    IF shares = Zero \/ price = Zero THEN Raise("ZeroDivisionError", {})
    ELSE Bind(LAMBDA per_share :
                Return([label |-> label,
                        growth_rate |-> growth_rate,
                        terminal_value |-> terminal_value,
                        equity_value |-> equity_value,
                        per_share |-> Round(per_share, 0),
                        upside |-> Round(RDiv(RSub(per_share, price), price), 4)]),
              RMul(equity_value, RDiv(I(MILLION), shares)))

\* lines 208-211
dcf_zero_growth(fcf, discount_rate, net_cash) ==
    Bind(LAMBDA terminal_value : <<terminal_value, RAdd(terminal_value, net_cash)>>,
         RDiv(fcf, discount_rate))

\* a plausible slip: the discounted terminal value is reported
dcf_growth_discounted_terminal(fcf, growth_rate, discount_rate, years, net_cash) ==
    Bind(LAMBDA loop :
           Bind(LAMBDA pv_terminal :
                  <<pv_terminal, RAdd(RAdd(loop[2], pv_terminal), net_cash)>>,
                RDiv(RDiv(loop[1], discount_rate),
                     RPow(RAdd(One, discount_rate), years))),
         dcf_loop(1, years, fcf, Zero, growth_rate, discount_rate))

\* lines 213-224 (1 + discount_rate # 0, or years = 0)
dcf_growth(fcf, growth_rate, discount_rate, years, net_cash) ==
    Bind(LAMBDA loop :
           Bind(LAMBDA terminal_value :
                  Bind(LAMBDA pv_terminal :
                         <<terminal_value, RAdd(RAdd(loop[2], pv_terminal), net_cash)>>,
                       RDiv(terminal_value, RPow(RAdd(One, discount_rate), years))),
                RDiv(loop[1], discount_rate)),
         dcf_loop(1, years, fcf, Zero, growth_rate, discount_rate))

\* a plausible slip: the zero-growth branch selected by the label
takes_zero_branch_by_label(growth_rate, label) == label = "bear"

takes_zero_branch(growth_rate, label) == growth_rate = Zero

\* a plausible slip: the discount-rate check only in the zero-growth branch
discount_check_zero_branch_only(growth_rate, discount_rate) ==
    growth_rate = Zero /\ discount_rate = Zero

discount_check(growth_rate, discount_rate) == discount_rate = Zero

\* floor(log2(q)) for q >= 1
RECURSIVE ILog2(_)
ILog2(q) == IF RLt(q, I(2)) THEN 0 ELSE 1 + ILog2(RDiv(q, I(2)))

\* base ** e leaves the range of a float, whose largest power of 2 is 2^1023:
\* Python raises OverflowError.  Decided for the powers with
\* 2^(k*e) <= base^e < 2^((k+1)*e), k = floor(log2(base)), when k*e >= 1024
\* (it does) or (k+1)*e < 1024 (it does not).
pow_overflows(base, e) ==
    /\ e > 0
    /\ RLe(One, RAbs(base))
    /\ ILog2(RAbs(base)) * e >= 1024

_calc_dcf_scenario(fcf, growth_rate, discount_rate, years, net_cash, shares, price, label) ==
    IF discount_check(growth_rate, discount_rate)
    THEN Raise("ValuationError", {"discount_rate"})
    ELSE IF discount_rate = Zero  \* fcf / 0: not reachable past line 205
    THEN Raise("ZeroDivisionError", {})
    ELSE IF takes_zero_branch(growth_rate, label)
    THEN Bind(LAMBDA v : dcf_result(label, growth_rate, v[1], v[2], shares, price),
              dcf_zero_growth(fcf, discount_rate, net_cash))
    ELSE IF RAdd(One, discount_rate) = Zero /\ years # 0
    THEN Raise("ZeroDivisionError", {})
    ELSE IF pow_overflows(RAdd(One, discount_rate), years)
    THEN Raise("OverflowError", {})
    ELSE Bind(LAMBDA v : dcf_result(label, growth_rate, v[1], v[2], shares, price),
              dcf_growth(fcf, growth_rate, discount_rate, years, net_cash))

(***************************************************************************)
(* Integration (lines 242-330)                                             *)
(***************************************************************************)
\* a plausible slip: an undefined value reported as 0
round_none_as_zero(val, digits) == IF IsNone(val) THEN Zero ELSE Round(val, digits)

_round(val, digits) == IF IsNone(val) THEN None ELSE Round(val, digits)

Propagate(o) == [err |-> o.err, ret |-> << >>]

dcf_entry(d) ==
    [label |-> d.label,
     growth_rate |-> d.growth_rate,
     terminal_value |-> _round(d.terminal_value, 2),
     equity_value |-> _round(d.equity_value, 2),
     per_share |-> d.per_share,
     upside |-> d.upside]

\* a plausible slip: the actual P/E is used when there is no forecast P/E
per_pbr_falling_back(per_actual, per_forecast, pbr) ==
    IF ~IsNone(per_forecast) THEN RMul(per_forecast, pbr)
    ELSE IF ~IsNone(per_actual) THEN RMul(per_actual, pbr)
    ELSE None

\* lines 262-264, over the locals in scope there
per_pbr(per_actual, per_forecast, pbr) ==
    IF ~IsNone(per_forecast) THEN RMul(per_forecast, pbr) ELSE None

\* lines 244-296: the local variables of calculate_valuation, unrounded; pbr and
\* the three scenarios are outcomes, since calc_pbr and _calc_dcf_scenario may raise
valuation_locals(i) ==
    LET mcap == calc_market_cap(i.stock_price, i.shares)
        per_actual == calc_per(i.stock_price, i.eps_actual)
        per_forecast == calc_per(i.stock_price, i.eps_forecast)
        pbr == calc_pbr(i.stock_price, i.bps)
        nopat == calc_nopat(i.operating_profit, i.effective_tax_rate)
        ic == calc_invested_capital(i.net_assets, i.net_cash)
    IN  [mcap |-> mcap,
         per_actual |-> per_actual,
         per_forecast |-> per_forecast,
         pbr |-> pbr,
         pcr |-> calc_pcr(mcap, i.operating_cf),
         psr |-> calc_psr(mcap, i.revenue),
         div_yield |-> calc_dividend_yield(i.dividend_annual, i.stock_price),
         ev_ebitda |-> calc_ev_ebitda(mcap, i.net_cash, i.ebitda),
         nopat |-> nopat,
         ic |-> ic,
         roic |-> calc_roic(nopat, ic),
         liq_discount |-> calc_liquidation_discount(i.liquidation_value_per_share,
                                                    i.stock_price),
         per_pbr |-> IF Returned(pbr)
                     THEN per_pbr(per_actual, per_forecast, pbr.ret[1]) ELSE None,
         dcf_bear |-> _calc_dcf_scenario(i.fcf, Zero, i.discount_rate, i.dcf_years,
                                         i.net_cash, i.shares, i.stock_price, "bear"),
         dcf_middle |-> _calc_dcf_scenario(i.fcf, i.dcf_growth_middle, i.discount_rate,
                                           i.dcf_years, i.net_cash, i.shares,
                                           i.stock_price, "middle"),
         dcf_strong |-> _calc_dcf_scenario(i.fcf, i.dcf_growth_strong, i.discount_rate,
                                           i.dcf_years, i.net_cash, i.shares,
                                           i.stock_price, "strong")]

\* a plausible slip: the scenario with the larger value is listed last
dcf_order_by_value(v) ==
    IF RLt(v.dcf_strong.ret[1].per_share, v.dcf_middle.ret[1].per_share)
    THEN <<v.dcf_bear, v.dcf_strong, v.dcf_middle>>
    ELSE <<v.dcf_bear, v.dcf_middle, v.dcf_strong>>

\* line 328: for d in [dcf_bear, dcf_middle, dcf_strong]
dcf_order(v) == <<v.dcf_bear, v.dcf_middle, v.dcf_strong>>

\* the first exception in evaluation order (lines 247, 267, 277, 287), else the
\* dict of lines 303-330
valuation_result(i, v) ==
    IF ~Returned(v.pbr) THEN Propagate(v.pbr)
    ELSE IF ~Returned(v.dcf_bear) THEN Propagate(v.dcf_bear)
    ELSE IF ~Returned(v.dcf_middle) THEN Propagate(v.dcf_middle)
    ELSE IF ~Returned(v.dcf_strong) THEN Propagate(v.dcf_strong)
    ELSE Return(
      [stock_price |-> i.stock_price,
       shares |-> i.shares,
       market_cap |-> _round(v.mcap, 2),
       per_actual |-> _round(v.per_actual, 2),
       per_forecast |-> _round(v.per_forecast, 2),
       pbr |-> _round(v.pbr.ret[1], 2),
       pcr |-> _round(v.pcr, 2),
       psr |-> _round(v.psr, 2),
       dividend_yield |-> _round(v.div_yield, 4),
       per_x_pbr |-> _round(v.per_pbr, 2),
       ev_ebitda |-> _round(v.ev_ebitda, 2),
       nopat |-> _round(v.nopat, 2),
       invested_capital |-> _round(v.ic, 2),
       roic |-> _round(v.roic, 4),
       liquidation_discount |-> _round(v.liq_discount, 4),
       dcf |-> [k \in 1..3 |-> dcf_entry(dcf_order(v)[k].ret[1])]])

calculate_valuation(inp0) ==
    Bind(LAMBDA i : Bind(LAMBDA v : valuation_result(i, v), valuation_locals(i)), inp0)

(***************************************************************************)
(* I/O: load_input (lines 336-342).  A file is "unreadable" (missing, a    *)
(* directory, no permission), "not_utf8" (bytes that are no UTF-8 text),   *)
(* "not_json" (UTF-8 text that is no JSON document) or "json" (the JSON    *)
(* text of a document).                                                    *)
(***************************************************************************)
\* path.read_text(encoding="utf-8"): the text, here named by its kind
read_text(f) ==
    IF f = "unreadable" THEN Raise("OSError", {})
    ELSE IF f = "not_utf8" THEN Raise("UnicodeDecodeError", {})
    ELSE Return(f)

\* json.loads(text), for a file that holds `document` when its text is JSON
json_loads(text, document) ==
    IF text = "not_json" THEN Raise("JSONDecodeError", {}) ELSE Return(document)

\* line 340: except (json.JSONDecodeError, OSError)
caught_by_load_input(kind) == kind \in {"JSONDecodeError", "OSError"}

load_input(f, document) ==
    LET text == read_text(f)
        data == IF Returned(text) THEN json_loads(text.ret[1], document)
                ELSE Propagate(text)
    IN  IF Returned(data) THEN from_dict(data.ret[1])
        ELSE IF caught_by_load_input(data.err.kind)
        THEN Raise("ValuationError", {data.err.kind})
        ELSE Propagate(data)

(***************************************************************************)
(* Inputs explored                                                         *)
(***************************************************************************)
\* the largest explicit horizon explored (dcf_years ranges over -1..MaxYears)
MaxYears == 2

\* an option: << >> (the key is absent) or <<v>> (the key is present with v)
Opt(S) == {<< >>} \cup {<<v>> : v \in S}

Put(data, k, opt) ==
    IF opt = << >>
    THEN [x \in DOMAIN data \ {k} |-> data[x]]
    ELSE [x \in DOMAIN data \cup {k} |-> IF x = k THEN opt[1] ELSE data[x]]

Ints(S) == {I(n) : n \in S}

BaseRaw ==
    [stock_price |-> I(2), shares_outstanding |-> I(2000), shares_unit |-> "thousands",
     bps |-> I(4), eps_actual |-> I(1), eps_forecast |-> I(2), dividend_annual |-> I(1),
     revenue |-> I(10), operating_profit |-> I(6), net_income |-> I(3),
     operating_cf |-> I(5), fcf |-> I(4), net_cash |-> I(3), ebitda |-> I(8),
     net_assets |-> I(9), effective_tax_rate |-> R(1, 2), discount_rate |-> R(1, 2),
     liquidation_value_per_share |-> I(4), dcf_growth_middle |-> R(1, 2),
     dcf_growth_strong |-> I(1), dcf_years |-> 2]

DroppableKeys == DOMAIN BaseRaw \ {"shares_outstanding"}

GrowthVals == {I(-2), I(-1), Zero, R(1, 2), One}
Labels == {"bear", "middle", "strong"}
LargeVals == Ints({-2000000, -1000000, 7, 1000000, 2000000})

\* share-count fields and unit marker
InitShares ==
    \E ex \in Opt(Ints({-1000, 0, 3000})), out \in Opt(Ints({2000, 5000})),
       tr \in Opt(Ints({2000, 7000})),
       unit \in Opt({"thousands", "shares", "millions"}) :
        raw = Put(Put(Put(Put(BaseRaw, "shares_outstanding_ex_treasury", ex),
                          "shares_outstanding", out), "treasury_shares", tr),
                  "shares_unit", unit)

\* one key absent, every other key present
InitMissing ==
    \E k \in DroppableKeys, ex \in Opt(Ints({3000})), out \in Opt(Ints({2000})) :
        raw = Put(Put(Put(BaseRaw, "shares_outstanding_ex_treasury", ex),
                      "shares_outstanding", out), k, << >>)

\* monetary aggregates around the rescale threshold
InitRescale ==
    \E ocf \in LargeVals, fcf \in LargeVals, nc \in LargeVals, eb \in LargeVals,
       na \in LargeVals :
        raw = [BaseRaw EXCEPT !.stock_price = I(500), !.operating_cf = ocf, !.fcf = fcf,
                              !.net_cash = nc, !.ebitda = eb, !.net_assets = na]

\* the aggregates that are not rescaled
InitUnscaled ==
    \E rev \in Ints({-3000000, 7, 3000000}), op \in Ints({-3000000, 7, 3000000}),
       ni \in Ints({-3000000, 7, 3000000}) :
        raw = [BaseRaw EXCEPT !.revenue = rev, !.operating_profit = op,
                              !.net_income = ni, !.net_assets = I(3003)]

\* per-share inputs of the ratios
InitPerShare ==
    \E price \in Ints({0, 2, 3}), bps \in Ints({0, 4}),
       ea \in Opt(Ints({-1, 0, 1})), ef \in Opt(Ints({0, 2})),
       dv \in Opt(Ints({0, 1})), lq \in Opt(Ints({0, 4})), r \in {Zero, R(1, 2)} :
        raw = Put(Put(Put(Put([BaseRaw EXCEPT !.stock_price = price, !.bps = bps,
                                              !.discount_rate = r],
                  "eps_actual", ea), "eps_forecast", ef), "dividend_annual", dv),
                  "liquidation_value_per_share", lq)

\* aggregates of the market-cap ratios and of ROIC
InitAggregates ==
    \E ocf \in Ints({-5, 0, 5}), rev \in Ints({-10, 0, 10}), eb \in Ints({-8, 0, 8}),
       na \in Ints({2, 3, 9}), nc \in Ints({-3, 3}), op \in Ints({-6, 6}),
       tax \in Opt({Zero, R(1, 2)}) :
        raw = Put([BaseRaw EXCEPT !.operating_cf = ocf, !.revenue = rev, !.ebitda = eb,
                                  !.net_assets = na, !.net_cash = nc,
                                  !.operating_profit = op],
                  "effective_tax_rate", tax)

\* inputs of the DCF scenarios
InitDcf ==
    \E fcf \in Ints({-4, 0, 4}), nc \in Ints({-3, 3}),
       r \in Opt({I(-1), Zero, R(1, 2)}), gm \in Opt(GrowthVals),
       gs \in Opt(GrowthVals), years \in Opt(-1..MaxYears) :
        raw = Put(Put(Put(Put([BaseRaw EXCEPT !.fcf = fcf, !.net_cash = nc],
                  "discount_rate", r), "dcf_growth_middle", gm),
                  "dcf_growth_strong", gs), "dcf_years", years)

(***************************************************************************)
(* State machine: one raw record is normalized, then either valued by      *)
(* calculate_valuation or handed to one direct call of a pure function.    *)
(***************************************************************************)
Init ==
    /\ \/ InitDcf
       \/ InitPerShare
       \/ InitAggregates
       \/ InitShares
       \/ InitMissing
       \/ InitRescale
       \/ InitUnscaled
    /\ pc = "raw"
    /\ inp = << >>
    /\ err = NoError
    /\ res = << >>
    /\ call = << >>
    /\ ret = << >>
    /\ file = "none"
    /\ log = {}
    /\ now = 0
    /\ requests = << >>

FromDict ==
    /\ pc = "raw"
    /\ \E o \in {from_dict(raw)} :
           /\ inp' = o.ret
           /\ err' = o.err
           /\ pc' = IF Returned(o) THEN "normalized" ELSE "failed"
    /\ UNCHANGED <<raw, res, call, ret, file, log, now, requests>>

CalculateValuation ==
    /\ pc = "normalized"
    /\ \E o \in {calculate_valuation(inp[1])} :
           /\ res' = o.ret
           /\ err' = o.err
           /\ pc' = IF Returned(o) THEN "valued" ELSE "failed"
           /\ log' = log \cup {[inp |-> inp[1], out |-> o]}
    /\ UNCHANGED <<raw, inp, call, ret, file, now, requests>>

DirectCall(fn, args, o) ==
    /\ call' = <<[fn |-> fn, args |-> args]>>
    /\ ret' = o.ret
    /\ err' = o.err
    /\ pc' = "called"
    /\ UNCHANGED <<raw, inp, res, file, log, now, requests>>

CalcDcfScenario ==
    /\ pc = "normalized"
    /\ \E g \in GrowthVals, label \in Labels, i \in {inp[1]} :
        \E o \in {_calc_dcf_scenario(i.fcf, g, i.discount_rate, i.dcf_years,
                                     i.net_cash, i.shares, i.stock_price, label)} :
            DirectCall("_calc_dcf_scenario",
                       <<i.fcf, g, i.discount_rate, i.dcf_years, i.net_cash, i.shares,
                         i.stock_price, label>>, o)

CalcPer ==
    /\ pc = "normalized"
    /\ \E eps \in {inp[1].eps_actual, inp[1].eps_forecast} :
        DirectCall("calc_per", <<inp[1].stock_price, eps>>,
                   Return(calc_per(inp[1].stock_price, eps)))

CalcPbr ==
    /\ pc = "normalized"
    /\ DirectCall("calc_pbr", <<inp[1].stock_price, inp[1].bps>>,
                  calc_pbr(inp[1].stock_price, inp[1].bps))

Next ==
    \/ FromDict
    \/ CalculateValuation
    \/ CalcDcfScenario
    \/ CalcPer
    \/ CalcPbr

Spec == Init /\ [][Next]_vars

(***************************************************************************)
(* Second state machine: the ratio functions called one by one.  A raw     *)
(* record of the per-share or aggregate family is normalized, then valued  *)
(* or handed to one direct call of a ratio function.                       *)
(***************************************************************************)
InitRatios ==
    /\ \/ InitAggregates
       \/ InitPerShare
    /\ pc = "raw"
    /\ inp = << >>
    /\ err = NoError
    /\ res = << >>
    /\ call = << >>
    /\ ret = << >>
    /\ file = "none"
    /\ log = {}
    /\ now = 0
    /\ requests = << >>

\* the market capitalisation the ratio functions are handed (line 244)
mcap_of(i) == calc_market_cap(i.stock_price, i.shares)

CalcPcr ==
    /\ pc = "normalized"
    /\ \E d \in {inp[1].operating_cf, None}, mc \in {mcap_of(inp[1])} :
        DirectCall("calc_pcr", <<mc, d>>, Return(calc_pcr(mc, d)))

CalcPsr ==
    /\ pc = "normalized"
    /\ \E d \in {inp[1].revenue, None}, mc \in {mcap_of(inp[1])} :
        DirectCall("calc_psr", <<mc, d>>, Return(calc_psr(mc, d)))

CalcEvEbitda ==
    /\ pc = "normalized"
    /\ \E d \in {inp[1].ebitda, None}, mc \in {mcap_of(inp[1])} :
        DirectCall("calc_ev_ebitda", <<mc, inp[1].net_cash, d>>,
                   Return(calc_ev_ebitda(mc, inp[1].net_cash, d)))

CalcNopat ==
    /\ pc = "normalized"
    /\ DirectCall("calc_nopat", <<inp[1].operating_profit, inp[1].effective_tax_rate>>,
                  Return(calc_nopat(inp[1].operating_profit, inp[1].effective_tax_rate)))

CalcInvestedCapital ==
    /\ pc = "normalized"
    /\ DirectCall("calc_invested_capital", <<inp[1].net_assets, inp[1].net_cash>>,
                  Return(calc_invested_capital(inp[1].net_assets, inp[1].net_cash)))

CalcRoic ==
    /\ pc = "normalized"
    /\ \E nopat \in {calc_nopat(inp[1].operating_profit, inp[1].effective_tax_rate)},
          ic \in {calc_invested_capital(inp[1].net_assets, inp[1].net_cash), None} :
        DirectCall("calc_roic", <<nopat, ic>>, Return(calc_roic(nopat, ic)))

CalcDividendYield ==
    /\ pc = "normalized"
    /\ DirectCall("calc_dividend_yield", <<inp[1].dividend_annual, inp[1].stock_price>>,
                  Return(calc_dividend_yield(inp[1].dividend_annual, inp[1].stock_price)))

CalcLiquidationDiscount ==
    /\ pc = "normalized"
    /\ \E lv \in {inp[1].liquidation_value_per_share, One, I(-4)} :
        DirectCall("calc_liquidation_discount", <<lv, inp[1].stock_price>>,
                   Return(calc_liquidation_discount(lv, inp[1].stock_price)))

NextRatios ==
    \/ FromDict
    \/ CalculateValuation
    \/ CalcPcr
    \/ CalcPsr
    \/ CalcEvEbitda
    \/ CalcNopat
    \/ CalcInvestedCapital
    \/ CalcRoic
    \/ CalcDividendYield
    \/ CalcLiquidationDiscount

SpecRatios == InitRatios /\ [][NextRatios]_vars

(***************************************************************************)
(* Third state machine: the valuation command's input path (cli.py lines   *)
(* 92-93): load_input on a file, then calculate_valuation.                 *)
(***************************************************************************)
FileStates == {"unreadable", "not_utf8", "not_json", "json"}

\* raw is the document the file holds when its text is JSON
InitLoad ==
    /\ \/ InitShares
       \/ InitMissing
    /\ file \in FileStates
    /\ pc = "file"
    /\ inp = << >>
    /\ err = NoError
    /\ res = << >>
    /\ call = << >>
    /\ ret = << >>
    /\ log = {}
    /\ now = 0
    /\ requests = << >>

LoadInput ==
    /\ pc = "file"
    /\ \E o \in {load_input(file, raw)} :
           /\ inp' = o.ret
           /\ err' = o.err
           /\ pc' = IF Returned(o) THEN "normalized" ELSE "failed"
    /\ UNCHANGED <<raw, res, call, ret, file, log, now, requests>>

NextLoad ==
    \/ LoadInput
    \/ CalculateValuation

SpecLoad == InitLoad /\ [][NextLoad]_vars

(***************************************************************************)
(* Fourth state machine: a caller that makes several invocations, one      *)
(* after the other, on inputs of its choice, and may try to assign a field *)
(* of the input it holds.                                                  *)
(***************************************************************************)
SessionRaws ==
    {[BaseRaw EXCEPT !.stock_price = p, !.fcf = f, !.bps = b] :
        p \in Ints({2, 3}), f \in Ints({-4, 4}), b \in Ints({0, 4})}

InitSession ==
    /\ raw \in SessionRaws
    /\ pc = "raw"
    /\ inp = << >>
    /\ err = NoError
    /\ res = << >>
    /\ call = << >>
    /\ ret = << >>
    /\ file = "none"
    /\ log = {}
    /\ now = 0
    /\ requests = << >>

\* a plausible slip: the dataclass is not frozen, the assignment takes effect
plain_setattr(obj, name, value) ==
    [err |-> NoError, obj |-> [obj EXCEPT ![name] = value]]

\* @dataclass(frozen=True): obj.name = value raises FrozenInstanceError
frozen_setattr(obj, name, value) ==
    [err |-> Raise("FrozenInstanceError", {name}).err, obj |-> obj]

\* the caller attempts inp.name = value on the input it holds
SetField ==
    /\ pc \in {"normalized", "valued"}
    /\ \E name \in {"stock_price", "shares", "fcf"}, value \in {I(7)} :
        \E o \in {frozen_setattr(inp[1], name, value)} :
            /\ inp' = <<o.obj>>
            /\ err' = o.err
            /\ call' = <<[fn |-> "__setattr__", args |-> <<name, value>>]>>
    /\ UNCHANGED <<raw, pc, res, ret, file, log, now, requests>>

\* the caller turns to another raw record
NewInput ==
    /\ pc \in {"valued", "failed"}
    /\ raw' \in SessionRaws
    /\ pc' = "raw"
    /\ inp' = << >>
    /\ err' = NoError
    /\ res' = << >>
    /\ UNCHANGED <<call, ret, file, log, now, requests>>

NextSession ==
    \/ FromDict
    \/ CalculateValuation
    \/ SetField
    \/ NewInput

SpecSession == InitSession /\ [][NextSession]_vars

(***************************************************************************)
(* Vocabulary of the properties                                            *)
(***************************************************************************)
\* from_dict has returned a normalized input (it is kept by the later calls)
Normalized == pc # "raw" /\ inp # << >>

\* from_dict has raised
FromDictFailed == pc = "failed" /\ inp = << >>

\* calculate_valuation has been called on the normalized input
Valued == pc = "valued"
ValuationFailed == pc = "failed" /\ inp # << >>

\* the last step was a direct call of fn
Called(fn) == pc = "called" /\ call[1].fn = fn

\* the share count the record states, before unit conversion (claim-side
\* reading of the resolution order; only used when one of the fields is present)
StatedShares ==
    IF Has(raw, "shares_outstanding_ex_treasury")
    THEN raw["shares_outstanding_ex_treasury"]
    ELSE IF Has(raw, "treasury_shares")
    THEN RSub(raw["shares_outstanding"], raw["treasury_shares"])
    ELSE raw["shares_outstanding"]

SharesStated == Has(raw, "shares_outstanding_ex_treasury") \/ Has(raw, "shares_outstanding")

\* x = y * k for rationals x, y and an integer k
IsTimes(x, y, k) == x[2] # 0 /\ x[1] * y[2] = y[1] * k * x[2]

\* q = a / b for rationals (b # 0)
IsQuotient(q, a, b) == q[2] # 0 /\ q[1] * b[1] * a[2] = a[1] * b[2] * q[2]

RescaledKeys == {"operating_cf", "fcf", "net_cash", "ebitda", "net_assets"}
UnscaledKeys == {"revenue", "operating_profit", "net_income"}

(***************************************************************************)
(* C1: from_dict resolves the share count in a fixed order: the ex-treasury *)
(* count when present (outstanding and treasury are then ignored), else     *)
(* outstanding minus treasury (0 when absent); when neither is present the  *)
(* call raises ValuationError naming both fields and returns no input.      *)
(***************************************************************************)
C1_ShareResolutionOrder ==
    /\ Normalized =>
        /\ SharesStated
        /\ \/ inp[1].shares = StatedShares
           \/ IsTimes(inp[1].shares, StatedShares, 1000)
    /\ (pc # "raw" /\ ~SharesStated) =>
        /\ FromDictFailed
        /\ err.kind = "ValuationError"
        /\ {"shares_outstanding_ex_treasury", "shares_outstanding"} \subseteq err.names
    /\ (FromDictFailed /\ SharesStated) => err.kind # "ValuationError"

\* the ex-treasury count wins over a different outstanding-minus-treasury count
C1_Witness ==
    /\ Normalized
    /\ Has(raw, "shares_outstanding_ex_treasury")
    /\ Has(raw, "shares_outstanding")
    /\ Has(raw, "treasury_shares")
    /\ raw["shares_outstanding_ex_treasury"] = I(3000)
    /\ raw["shares_outstanding"] = I(5000)
    /\ raw["treasury_shares"] = I(7000)
    /\ ~Has(raw, "shares_unit")
    /\ inp[1].shares = I(3000)

(***************************************************************************)
(* C2: from_dict raises ValuationError (the error of a missing share count) *)
(* whenever one of the ten required keys is absent, and returns no input.   *)
(***************************************************************************)
C2_MissingRequiredIsValuationError ==
    (pc # "raw" /\ \E k \in RequiredKeys : ~Has(raw, k)) =>
        (FromDictFailed /\ err.kind = "ValuationError")

(***************************************************************************)
(* C3: each of operating_cf, fcf, net_cash, ebitda and net_assets is        *)
(* divided by 1000 exactly when its own magnitude is strictly greater than  *)
(* 1,000,000 and is unchanged otherwise, whatever the other fields are;     *)
(* revenue, operating_profit and net_income are never rescaled.             *)
(***************************************************************************)
C3_RescalePerField ==
    Normalized =>
        /\ \A k \in RescaledKeys :
            IF raw[k][1] > 1000000 * raw[k][2] \/ -raw[k][1] > 1000000 * raw[k][2]
            THEN IsTimes(raw[k], inp[1][k], 1000)
            ELSE inp[1][k] = raw[k]
        /\ \A k \in UnscaledKeys : inp[1][k] = raw[k]

\* a record that mixes fields above, at and below the threshold
C3_Witness ==
    /\ Normalized
    /\ raw["fcf"] = I(2000000) /\ inp[1].fcf = I(2000)
    /\ raw["operating_cf"] = I(-2000000) /\ inp[1].operating_cf = I(-2000)
    /\ raw["net_cash"] = I(1000000) /\ inp[1].net_cash = I(1000000)
    /\ raw["ebitda"] = I(-1000000) /\ inp[1].ebitda = I(-1000000)
    /\ raw["net_assets"] = I(7) /\ inp[1].net_assets = I(7)

(***************************************************************************)
(* C4: the normalized share count is the resolved count times 1000 when     *)
(* shares_unit is exactly "thousands" and the resolved count itself when    *)
(* shares_unit is absent or anything else.                                  *)
(***************************************************************************)
C4_SharesUnit ==
    Normalized =>
        IF Has(raw, "shares_unit") /\ raw["shares_unit"] = "thousands"
        THEN IsTimes(inp[1].shares, StatedShares, 1000)
        ELSE inp[1].shares = StatedShares

\* a marker other than "thousands" leaves the count unchanged
C4_Witness ==
    /\ Normalized
    /\ Has(raw, "shares_unit") /\ raw["shares_unit"] = "millions"
    /\ ~Has(raw, "shares_outstanding_ex_treasury")
    /\ raw["shares_outstanding"] = I(5000)
    /\ Has(raw, "treasury_shares") /\ raw["treasury_shares"] = I(2000)
    /\ inp[1].shares = I(3000)

(***************************************************************************)
(* C5: every normalized input has a share count strictly greater than 0.    *)
(***************************************************************************)
C5_SharesPositive == Normalized => inp[1].shares[1] > 0

(***************************************************************************)
(* C6: ValuationError for an invalid divisor is raised exactly by calc_pbr  *)
(* with bps = 0 and by _calc_dcf_scenario with discount_rate = 0 (any       *)
(* growth rate, before any division); calculate_valuation raises it, and    *)
(* returns nothing, exactly when bps = 0 or discount_rate = 0.              *)
(***************************************************************************)
C6_InvalidDivisor ==
    /\ Called("calc_pbr") =>
        IF call[1].args[2] = Zero
        THEN err.kind = "ValuationError" /\ ret = << >>
        ELSE err.kind = "none" /\ ret # << >>
    /\ Called("_calc_dcf_scenario") =>
        IF call[1].args[3] = Zero
        THEN err.kind = "ValuationError" /\ ret = << >>
        ELSE err.kind # "ValuationError"
    /\ (Valued \/ ValuationFailed) =>
        IF inp[1].bps = Zero \/ inp[1].discount_rate = Zero
        THEN err.kind = "ValuationError" /\ res = << >>
        ELSE err.kind # "ValuationError"

\* the nonzero-growth branch with a zero discount rate
C6_Witness ==
    /\ Called("_calc_dcf_scenario")
    /\ call[1].args[2] = One
    /\ call[1].args[3] = Zero
    /\ call[1].args[7] = Zero
    /\ err.kind = "ValuationError"
    /\ ret = << >>

(***************************************************************************)
(* C7: calc_per returns None, never 0 and never an exception, exactly when  *)
(* EPS is absent or 0; for every other EPS, negative ones included, it      *)
(* returns price / EPS.                                                     *)
(***************************************************************************)
C7_PerNoValue ==
    Called("calc_per") =>
        /\ err.kind = "none"
        /\ Len(ret) = 1
        /\ IF IsNone(call[1].args[2]) \/ call[1].args[2] = Zero
           THEN ret[1] = None
           ELSE IsQuotient(ret[1], call[1].args[1], call[1].args[2])

\* a negative EPS gives a negative ratio
C7_Witness ==
    /\ Called("calc_per")
    /\ call[1].args[1] = I(3)
    /\ call[1].args[2] = I(-1)
    /\ ret = <<I(-3)>>

(***************************************************************************)
(* C8: calculate_valuation never returns a partial result: it raises and    *)
(* returns nothing, or returns the 16 keys with three DCF entries of six    *)
(* keys each; an undefined ratio is None (not 0, not omitted) and an absent *)
(* optional input is never treated as 0.                                    *)
(***************************************************************************)
ResultKeys ==
    {"stock_price", "shares", "market_cap", "per_actual", "per_forecast", "pbr", "pcr",
     "psr", "dividend_yield", "per_x_pbr", "ev_ebitda", "nopat", "invested_capital",
     "roic", "liquidation_discount", "dcf"}

DcfKeys ==
    {"label", "growth_rate", "terminal_value", "equity_value", "per_share", "upside"}

NotPositive(x) == x[1] <= 0

C8_FixedSchema ==
    /\ ValuationFailed => (res = << >> /\ err.kind # "none")
    /\ Valued =>
        /\ err.kind = "none"
        /\ Len(res) = 1
        /\ DOMAIN res[1] = ResultKeys
        /\ Len(res[1].dcf) = 3
        /\ \A n \in 1..3 : DOMAIN res[1].dcf[n] = DcfKeys
        /\ (IsNone(inp[1].eps_actual) \/ inp[1].eps_actual = Zero)
              => res[1].per_actual = None
        /\ (IsNone(inp[1].eps_forecast) \/ inp[1].eps_forecast = Zero)
              => (res[1].per_forecast = None /\ res[1].per_x_pbr = None)
        /\ IsNone(inp[1].dividend_annual) => res[1].dividend_yield = None
        /\ (IsNone(inp[1].liquidation_value_per_share)
            \/ inp[1].liquidation_value_per_share = Zero)
              => res[1].liquidation_discount = None
        /\ NotPositive(inp[1].operating_cf) => res[1].pcr = None
        /\ NotPositive(inp[1].revenue) => res[1].psr = None
        /\ NotPositive(inp[1].ebitda) => res[1].ev_ebitda = None
        /\ NotPositive(RSub(inp[1].net_assets, inp[1].net_cash)) => res[1].roic = None

\* a full result in which every optional input is absent
C8_Witness ==
    /\ Valued
    /\ IsNone(inp[1].eps_actual) /\ res[1].per_actual = None
    /\ IsNone(inp[1].eps_forecast) /\ res[1].per_x_pbr = None
    /\ IsNone(inp[1].dividend_annual) /\ res[1].dividend_yield = None
    /\ IsNone(inp[1].liquidation_value_per_share) /\ res[1].liquidation_discount = None
    /\ res[1].pbr # None

(***************************************************************************)
(* C9 (as claimed): for every free cash flow, nonzero discount rate,        *)
(* horizon, net cash, share count and price, a larger growth rate never     *)
(* gives a smaller DCF per-share value.                                     *)
(***************************************************************************)
MonotoneInGrowth ==
    \A m, n \in 1..3 :
        RLe(res[1].dcf[m].growth_rate, res[1].dcf[n].growth_rate)
            => RLe(res[1].dcf[m].per_share, res[1].dcf[n].per_share)

C9_MonotoneForAllInputs == Valued => MonotoneInGrowth

(***************************************************************************)
(* C9 (amended): for a free cash flow >= 0, a discount rate > 0, a horizon  *)
(* >= 0, a share count > 0 and growth rates >= -1, a larger growth rate     *)
(* never gives a smaller DCF per-share value; so with                       *)
(* 0 <= dcf_growth_middle <= dcf_growth_strong the per-share values are     *)
(* ordered strong >= middle >= bear.                                        *)
(***************************************************************************)
MonotoneDomain ==
    /\ inp[1].fcf[1] >= 0
    /\ inp[1].discount_rate[1] > 0
    /\ inp[1].dcf_years >= 0
    /\ inp[1].shares[1] > 0
    /\ RLe(I(-1), inp[1].dcf_growth_middle)
    /\ RLe(I(-1), inp[1].dcf_growth_strong)

C9_MonotoneInGrowth ==
    (Valued /\ MonotoneDomain) =>
        /\ MonotoneInGrowth
        /\ (RLe(Zero, inp[1].dcf_growth_middle)
            /\ RLe(inp[1].dcf_growth_middle, inp[1].dcf_growth_strong))
              => /\ RLe(res[1].dcf[1].per_share, res[1].dcf[2].per_share)
                 /\ RLe(res[1].dcf[2].per_share, res[1].dcf[3].per_share)

\* three strictly increasing per-share values
C9_Witness ==
    /\ Valued
    /\ MonotoneDomain
    /\ inp[1].dcf_years = 2
    /\ inp[1].dcf_growth_middle = R(1, 2)
    /\ inp[1].dcf_growth_strong = One
    /\ RLt(res[1].dcf[1].per_share, res[1].dcf[2].per_share)
    /\ RLt(res[1].dcf[2].per_share, res[1].dcf[3].per_share)

(***************************************************************************)
(* C10: _calc_dcf_scenario takes the zero-growth branch exactly when the    *)
(* growth rate is 0, whatever the label: then terminal value = fcf /        *)
(* discount_rate on the unprojected cash flow, equity value = terminal      *)
(* value + net_cash, and the horizon has no influence; a middle or strong   *)
(* scenario with growth 0 has the numbers of the bear scenario.             *)
(***************************************************************************)
SameNumbers(d, e) ==
    /\ d.terminal_value = e.terminal_value
    /\ d.equity_value = e.equity_value
    /\ d.per_share = e.per_share
    /\ d.upside = e.upside

C10_ZeroGrowthBranch ==
    /\ (Called("_calc_dcf_scenario") /\ err.kind = "none") =>
        LET fcf == call[1].args[1]
            g == call[1].args[2]
            r == call[1].args[3]
            years == call[1].args[4]
            net_cash == call[1].args[5]
        IN  IF g = Zero
            THEN /\ IsQuotient(ret[1].terminal_value, fcf, r)
                 /\ ret[1].equity_value = RAdd(ret[1].terminal_value, net_cash)
            ELSE years >= 0 =>
                    IsQuotient(ret[1].terminal_value,
                               RMul(fcf, RPow(RAdd(One, g), years)), r)
    /\ Valued =>
        /\ inp[1].dcf_growth_middle = Zero
              => SameNumbers(res[1].dcf[2], res[1].dcf[1])
        /\ inp[1].dcf_growth_strong = Zero
              => SameNumbers(res[1].dcf[3], res[1].dcf[1])

\* a "strong" call with growth 0 and a negative horizon, where the two
\* branches differ: fcf 4, discount 1/2, net cash 3 give 8 and 11
C10_Witness ==
    /\ Called("_calc_dcf_scenario")
    /\ err.kind = "none"
    /\ call[1].args = <<I(4), Zero, R(1, 2), -1, I(3), I(2000000), I(2), "strong">>
    /\ ret[1].terminal_value = I(8)
    /\ ret[1].equity_value = I(11)

(***************************************************************************)
(* C11: calculate_valuation evaluates exactly three DCF scenarios, with    *)
(* growth rates 0, dcf_growth_middle and dcf_growth_strong and the same    *)
(* fcf, discount_rate, dcf_years, net_cash, shares and stock_price, and    *)
(* lists them in the order bear, middle, strong whatever their computed    *)
(* values are.                                                             *)
(***************************************************************************)
C11_ThreeScenariosInOrder ==
    Valued =>
        LET i == inp[1]
            d == res[1].dcf
            growth == <<Zero, i.dcf_growth_middle, i.dcf_growth_strong>>
            labels == <<"bear", "middle", "strong">>
        IN  /\ DOMAIN d = 1..3
            /\ \A k \in 1..3 :
                  /\ d[k].label = labels[k]
                  /\ d[k].growth_rate = growth[k]
                  /\ \E o \in {_calc_dcf_scenario(i.fcf, growth[k], i.discount_rate,
                                                   i.dcf_years, i.net_cash, i.shares,
                                                   i.stock_price, labels[k])} :
                        Returned(o) /\ d[k] = dcf_entry(o.ret[1])

\* the middle scenario has the larger growth rate and the larger value
C11_Witness ==
    /\ Valued
    /\ RLt(inp[1].dcf_growth_strong, inp[1].dcf_growth_middle)
    /\ RLt(res[1].dcf[3].per_share, res[1].dcf[2].per_share)
    /\ res[1].dcf[2].label = "middle"

(***************************************************************************)
(* C12: calc_pcr, calc_psr and calc_ev_ebitda return None exactly when     *)
(* their divisor (operating cash flow, revenue, EBITDA) is absent, zero or *)
(* negative, and otherwise market_cap / operating_cf, market_cap / revenue *)
(* and (market_cap - net_cash) / ebitda; net_cash is not guarded, so with  *)
(* a negative net cash the enterprise value exceeds the market cap.        *)
(***************************************************************************)
C12_MarketCapRatios ==
    /\ (Called("calc_pcr") \/ Called("calc_psr")) =>
          LET mc == call[1].args[1]
              d == call[1].args[2]
          IN  /\ err.kind = "none"
              /\ Len(ret) = 1
              /\ IF IsNone(d) \/ NotPositive(d)
                 THEN ret[1] = None
                 ELSE IsQuotient(ret[1], mc, d)
    /\ Called("calc_ev_ebitda") =>
          LET mc == call[1].args[1]
              nc == call[1].args[2]
              d == call[1].args[3]
          IN  /\ err.kind = "none"
              /\ Len(ret) = 1
              /\ IF IsNone(d) \/ NotPositive(d)
                 THEN ret[1] = None
                 ELSE /\ IsQuotient(ret[1], RSub(mc, nc), d)
                      /\ RLt(nc, Zero) => RLt(mc, RMul(ret[1], d))

\* net debt: EV/EBITDA is returned and is larger than market_cap / ebitda
C12_Witness ==
    /\ Called("calc_ev_ebitda")
    /\ RLt(call[1].args[2], Zero)
    /\ RLt(Zero, call[1].args[3])
    /\ ret # << >>
    /\ ~IsNone(ret[1])
    /\ RLt(RDiv(call[1].args[1], call[1].args[3]), ret[1])

(***************************************************************************)
(* C13: NOPAT = operating_profit * (1 - effective_tax_rate), invested      *)
(* capital = net_assets - net_cash, and ROIC = NOPAT / invested capital    *)
(* when invested capital is strictly positive; calc_roic returns None      *)
(* exactly when invested capital is absent, zero or negative (net_cash >=  *)
(* net_assets), while calculate_valuation always reports nopat and         *)
(* invested_capital, negative ones included.                               *)
(***************************************************************************)
C13_RoicChain ==
    /\ Called("calc_nopat") =>
          /\ err.kind = "none"
          /\ ret = <<RMul(call[1].args[1], RSub(One, call[1].args[2]))>>
    /\ Called("calc_invested_capital") =>
          /\ err.kind = "none"
          /\ ret = <<RSub(call[1].args[1], call[1].args[2])>>
    /\ Called("calc_roic") =>
          /\ err.kind = "none"
          /\ Len(ret) = 1
          /\ IF IsNone(call[1].args[2]) \/ NotPositive(call[1].args[2])
             THEN ret[1] = None
             ELSE IsQuotient(ret[1], call[1].args[1], call[1].args[2])
    /\ Valued =>
          LET i == inp[1]
              nopat == RMul(i.operating_profit, RSub(One, i.effective_tax_rate))
              ic == RSub(i.net_assets, i.net_cash)
          IN  /\ res[1].nopat = Round(nopat, 2)
              /\ res[1].invested_capital = Round(ic, 2)
              /\ IF RLe(i.net_assets, i.net_cash)
                 THEN res[1].roic = None
                 ELSE res[1].roic = Round(RDiv(nopat, ic), 4)

\* a negative NOPAT and a negative invested capital are reported, ROIC is not
C13_Witness ==
    /\ Valued
    /\ RLt(res[1].nopat, Zero)
    /\ RLt(res[1].invested_capital, Zero)
    /\ res[1].roic = None

(***************************************************************************)
(* C14: for every positive price calc_dividend_yield returns None exactly  *)
(* when the annual dividend is absent and dividend / price for every       *)
(* present dividend; a dividend of exactly 0 gives 0, not None.            *)
(***************************************************************************)
C14_DividendYield ==
    (Called("calc_dividend_yield") /\ RLt(Zero, call[1].args[2])) =>
        /\ err.kind = "none"
        /\ Len(ret) = 1
        /\ IF IsNone(call[1].args[1])
           THEN ret[1] = None
           ELSE /\ ~IsNone(ret[1])
                /\ IsQuotient(ret[1], call[1].args[1], call[1].args[2])
                /\ call[1].args[1] = Zero => ret[1] = Zero

\* a dividend of 0 at a positive price yields 0
C14_Witness ==
    /\ Called("calc_dividend_yield")
    /\ RLt(Zero, call[1].args[2])
    /\ call[1].args[1] = Zero
    /\ ret = <<Zero>>

(***************************************************************************)
(* C15: calc_liquidation_discount returns None exactly when the            *)
(* liquidation value per share is absent or 0, and otherwise (liquidation  *)
(* value - price) / liquidation value; for a positive liquidation value    *)
(* the result is positive exactly when price < liquidation value and       *)
(* negative exactly when price > liquidation value.                        *)
(***************************************************************************)
C15_LiquidationDiscount ==
    Called("calc_liquidation_discount") =>
        LET lv == call[1].args[1]
            price == call[1].args[2]
        IN  /\ err.kind = "none"
            /\ Len(ret) = 1
            /\ IF IsNone(lv) \/ lv = Zero
               THEN ret[1] = None
               ELSE /\ ~IsNone(ret[1])
                    /\ IsQuotient(ret[1], RSub(lv, price), lv)
                    /\ RLt(Zero, lv) =>
                          /\ RLt(Zero, ret[1]) <=> RLt(price, lv)
                          /\ RLt(ret[1], Zero) <=> RLt(lv, price)

\* a price above a positive liquidation value: a negative discount (premium)
C15_Witness ==
    /\ Called("calc_liquidation_discount")
    /\ RLt(Zero, call[1].args[1])
    /\ RLt(call[1].args[1], call[1].args[2])
    /\ ret # << >>
    /\ ~IsNone(ret[1])
    /\ RLt(ret[1], Zero)

(***************************************************************************)
(* C16 (as claimed): in the result of calculate_valuation per_x_pbr is     *)
(* defined exactly when forecast EPS is present, and then equals forecast  *)
(* P/E times P/B.                                                          *)
(***************************************************************************)
C16_DefinedWhenForecastPresent ==
    Valued => (~IsNone(res[1].per_x_pbr) <=> ~IsNone(inp[1].eps_forecast))

(***************************************************************************)
(* C16 (amended): per_x_pbr is defined exactly when the forecast P/E is    *)
(* defined, that is when forecast EPS is present and not 0, and then       *)
(* equals forecast P/E times P/B (to 2 places); it is None otherwise,      *)
(* whatever eps_actual is, so it never falls back to the actual P/E.       *)
(***************************************************************************)
C16_PerPbrFromForecastOnly ==
    Valued =>
        LET i == inp[1]
        IN  IF IsNone(i.eps_forecast) \/ i.eps_forecast = Zero
            THEN res[1].per_x_pbr = None
            ELSE /\ ~IsNone(res[1].per_x_pbr)
                 /\ res[1].per_x_pbr =
                        Round(RMul(RDiv(i.stock_price, i.eps_forecast),
                                   RDiv(i.stock_price, i.bps)), 2)

\* no forecast EPS, an actual P/E is reported, per_x_pbr is not
C16_Witness ==
    /\ Valued
    /\ IsNone(inp[1].eps_forecast)
    /\ ~IsNone(res[1].per_actual)
    /\ res[1].per_x_pbr = None

(***************************************************************************)
(* C17: from_dict applies defaults only to absent fields:                  *)
(* effective_tax_rate 0.30, discount_rate 0.10, dcf_growth_middle 0.05,    *)
(* dcf_growth_strong 0.10 and dcf_years 5; a supplied value, 0 included,   *)
(* is kept unchanged.                                                      *)
(***************************************************************************)
C17_DefaultsOnlyWhenAbsent ==
    Normalized =>
        LET defaults == [effective_tax_rate |-> R(3, 10), discount_rate |-> R(1, 10),
                         dcf_growth_middle |-> R(1, 20), dcf_growth_strong |-> R(1, 10),
                         dcf_years |-> 5]
        IN  \A k \in DOMAIN defaults :
                inp[1][k] = IF k \in DOMAIN raw THEN raw[k] ELSE defaults[k]

\* a supplied discount rate of 0 is kept while the absent horizon becomes 5
C17_Witness ==
    /\ Normalized
    /\ "discount_rate" \in DOMAIN raw
    /\ raw["discount_rate"] = Zero
    /\ inp[1].discount_rate = Zero
    /\ "dcf_years" \notin DOMAIN raw
    /\ inp[1].dcf_years = 5
    /\ "dcf_growth_middle" \notin DOMAIN raw
    /\ inp[1].dcf_growth_middle = R(1, 20)

(***************************************************************************)
(* C18: in every DCF scenario result the per-share value equals equity     *)
(* value (millions) times 1,000,000 divided by the share count, rounded to *)
(* the whole unit, and the reported upside equals (per-share value -       *)
(* price) / price rounded to 4 places, the per-share value being the       *)
(* reported, whole-unit rounded figure.                                    *)
(***************************************************************************)
C18_UpsideFromReportedPerShare ==
    (Called("_calc_dcf_scenario") /\ ret # << >>) =>
        LET d == ret[1]
            shares == call[1].args[6]
            price == call[1].args[7]
        IN  /\ d.per_share = Round(RMul(d.equity_value, RDiv(I(1000000), shares)), 0)
            /\ d.upside = Round(RDiv(RSub(d.per_share, price), price), 4)

(***************************************************************************)
(* C19: load_input raises ValuationError and returns no input whenever the *)
(* file cannot be read or its content is not valid JSON; for a readable    *)
(* file of valid JSON it returns exactly what from_dict returns for the    *)
(* parsed content.                                                         *)
(***************************************************************************)
C19_LoadInput ==
    (file # "none" /\ pc \in {"normalized", "failed"} /\ log = {}) =>
        IF file = "json"
        THEN [err |-> err, ret |-> inp] = from_dict(raw)
        ELSE err.kind = "ValuationError" /\ inp = << >>

RATE_LIMIT_DELAY == 35

\* None where a str is expected; a str is truthy when it is neither None nor ""
NoText == <<"None">>
Truthy(s) == s # NoText /\ s # << >>

\* s[:4]
Head4(s) == SubSeq(s, 1, IF Len(s) < 4 THEN Len(s) ELSE 4)

\* r.get(k)
RecGet(r, k) == IF k \in DOMAIN r THEN r[k] ELSE NoText

\* data.get("metadata", {}).get("status"); "None" when there is none
metadata_status(data) ==
    IF "metadata" \in DOMAIN data /\ "status" \in DOMAIN data.metadata
    THEN data.metadata.status ELSE "None"

\* a plausible slip: the whole code is compared, not its first 4 characters
sec_code_equal(r, sec_code) ==
    Truthy(RecGet(r, "secCode")) /\ RecGet(r, "secCode") = sec_code

\* line 101: r.get("secCode") and r.get("secCode")[:4] == sec_prefix
sec_code_matches(r, sec_code) ==
    Truthy(RecGet(r, "secCode")) /\ Head4(RecGet(r, "secCode")) = Head4(sec_code)

\* lines 95-108: the three optional filters, applied one after the other
filter_results(results, sec_code, ordinance_code, form_code) ==
    LET by_sec == IF Truthy(sec_code)
                  THEN SelectSeq(results, LAMBDA r : sec_code_matches(r, sec_code))
                  ELSE results
        by_ordinance == IF Truthy(ordinance_code)
                        THEN SelectSeq(by_sec, LAMBDA r :
                                 RecGet(r, "ordinanceCode") = ordinance_code)
                        ELSE by_sec
    IN  IF Truthy(form_code)
        THEN SelectSeq(by_ordinance, LAMBDA r : RecGet(r, "formCode") = form_code)
        ELSE by_ordinance

\* what a call of the client did besides returning or raising: whether the
\* remote request was sent, how often it slept, what it left at output_path
ClientOutcome(o, requested, sleeps, saved) ==
    [err |-> o.err, ret |-> o.ret, requested |-> requested, sleeps |-> sleeps,
     saved |-> saved]

\* a plausible slip: the metadata status is not looked at
status_not_checked(data) == FALSE

\* line 89: data.get("metadata", {}).get("status") != "200"
status_refused(data) == metadata_status(data) # "200"

\* a reply is the outcome of the remote call: "network_error" (requests.get
\* raises), "http_error" (raise_for_status raises) or "json" with its data
search_documents(key, sec_code, ordinance_code, form_code, reply) ==
    IF ~key THEN ClientOutcome(Raise("SystemExit", {}), FALSE, 0, "none")
    ELSE IF reply.kind # "json"
    THEN ClientOutcome(Raise("EdinetAPIError", {reply.kind}), TRUE, 0, "none")
    ELSE IF status_refused(reply.data)
    THEN ClientOutcome(Raise("EdinetAPIError", {"status"}), TRUE, 0, "none")
    ELSE ClientOutcome(Return(filter_results(GetDefault(reply.data, "results", << >>),
                                             sec_code, ordinance_code, form_code)),
                       TRUE, 1, "none")

\* a download reply is "network_error", "http_error", "stream_error" (the
\* body breaks off while its chunks are written) or "ok"
download_document(key, output_path, reply) ==
    IF ~key THEN ClientOutcome(Raise("SystemExit", {}), FALSE, 0, "none")
    ELSE IF reply \in {"network_error", "http_error"}
    THEN ClientOutcome(Raise("EdinetAPIError", {reply}), TRUE, 0, "none")
    ELSE IF reply = "stream_error"
    THEN ClientOutcome(Raise("EdinetAPIError", {reply}), TRUE, 0, "partial")
    ELSE ClientOutcome(Return(output_path), TRUE, 1, "complete")

(***************************************************************************)
(* The client as a state machine: a process calls the two operations one   *)
(* after the other, catching what they raise                               *)
(***************************************************************************)
MaxCalls == 3

Code5819 == <<"5", "8", "1", "9">>
Code58190 == <<"5", "8", "1", "9", "0">>
Code58195 == <<"5", "8", "1", "9", "5">>
Code12340 == <<"1", "2", "3", "4", "0">>
Code58 == <<"5", "8">>
Ordinance010 == <<"0", "1", "0">>
Ordinance020 == <<"0", "2", "0">>
Form030000 == <<"0", "3", "0", "0", "0", "0">>
Form043000 == <<"0", "4", "3", "0", "0", "0">>

\* filing metadata records; an unlisted filer has secCode null, DocE lacks
\* the codes altogether
DocA == [docID |-> "A", secCode |-> Code58190, ordinanceCode |-> Ordinance010,
         formCode |-> Form030000]
DocB == [docID |-> "B", secCode |-> Code12340, ordinanceCode |-> Ordinance010,
         formCode |-> Form043000]
DocC == [docID |-> "C", secCode |-> Code58195, ordinanceCode |-> Ordinance020,
         formCode |-> Form030000]
DocD == [docID |-> "D", secCode |-> NoText, ordinanceCode |-> Ordinance010,
         formCode |-> Form030000]
DocE == [docID |-> "E"]
DocF == [docID |-> "F", secCode |-> Code58, ordinanceCode |-> Ordinance010,
         formCode |-> Form030000]
Docs == {DocA, DocB, DocC, DocD, DocE, DocF}
ResultLists == {<< >>} \cup {<<a>> : a \in Docs}
                       \cup {<<a, b>> : a \in Docs, b \in Docs}

SecCodeArgs == {NoText, << >>, Code5819, Code58190, Code58}
OrdinanceArgs == {NoText, Ordinance010}
FormArgs == {NoText, Form030000}

SearchReplies ==
    {[kind |-> "network_error"], [kind |-> "http_error"]}
    \cup {[kind |-> "json", data |-> [metadata |-> [status |-> st], results |-> l]] :
             st \in {"200", "404"}, l \in ResultLists}
    \cup {[kind |-> "json", data |-> [metadata |-> [status |-> "200"]]],
          [kind |-> "json", data |-> [results |-> <<DocA>>]]}
DownloadReplies == {"network_error", "http_error", "stream_error", "ok"}
Latencies == {0, 10}

InitClient ==
    /\ raw = << >> /\ pc = "idle" /\ inp = << >> /\ err = NoError /\ res = << >>
    /\ call = << >> /\ ret = << >> /\ file = << >> /\ log = {}
    /\ now = 0 /\ requests = << >>

\* the remote request is sent at the present time and answered after the
\* latency; the operation then returns or raises, having slept o.sleeps times
ClientCall(fn, args, o, latency) ==
    /\ call' = <<[fn |-> fn, args |-> args, sleeps |-> o.sleeps, saved |-> o.saved,
                  requested |-> o.requested]>>
    /\ ret' = o.ret
    /\ err' = o.err
    /\ requests' = IF o.requested THEN Append(requests, now) ELSE requests
    /\ now' = now + (IF o.requested THEN latency ELSE 0) + o.sleeps * RATE_LIMIT_DELAY
    /\ UNCHANGED <<raw, pc, inp, res, file, log>>

\* one call of search_documents with arguments and reply drawn from the sets
Search(secs, ordinances, forms, replies) ==
    \E key \in BOOLEAN, sec_code \in secs, ordinance_code \in ordinances,
       form_code \in forms, reply \in replies, latency \in Latencies :
       \E o \in {search_documents(key, sec_code, ordinance_code, form_code, reply)} :
          ClientCall("search_documents",
                     <<sec_code, ordinance_code, form_code, reply>>, o, latency)

\* in a sequence of calls the replies are few: what matters is their kind
FewReplies ==
    {[kind |-> "network_error"], [kind |-> "http_error"],
     [kind |-> "json", data |-> [metadata |-> [status |-> "200"], results |-> <<DocA>>]],
     [kind |-> "json", data |-> [metadata |-> [status |-> "404"], results |-> <<DocA>>]],
     [kind |-> "json", data |-> [results |-> <<DocA>>]]}

SearchDocuments ==
    /\ pc = "idle"
    /\ Len(requests) < MaxCalls
    /\ Search({NoText, Code5819}, {NoText}, {NoText}, FewReplies)

DownloadDocument ==
    /\ pc = "idle"
    /\ Len(requests) < MaxCalls
    /\ \E key \in BOOLEAN, reply \in DownloadReplies, latency \in Latencies :
          \E o \in {download_document(key, "output_path", reply)} :
             ClientCall("download_document", <<reply>>, o, latency)

NextClient == SearchDocuments \/ DownloadDocument

SpecClient == InitClient /\ [][NextClient]_vars

\* a single search, over every combination of filters and every reply
SearchOnce ==
    /\ pc = "idle"
    /\ call = << >>
    /\ Search(SecCodeArgs, OrdinanceArgs, FormArgs, SearchReplies)

NextSearch == SearchOnce

SpecSearch == InitClient /\ [][NextSearch]_vars

\* the last call of the client was fn
ClientCalled(fn) == pc = "idle" /\ call # << >> /\ call[1].fn = fn

(***************************************************************************)
(* C21: in every sequence of search_documents and download_document calls, *)
(* whatever their outcomes, at least RATE_LIMIT_DELAY elapses between the  *)
(* remote request of one call and that of the next, and each call sleeps   *)
(* for that delay exactly once.                                            *)
(***************************************************************************)
C21_MinimumDelay ==
    /\ \A k \in 2..Len(requests) : requests[k] - requests[k - 1] >= RATE_LIMIT_DELAY
    /\ call # << >> /\ call[1].requested => call[1].sleeps = 1

\* the remote call of the last operation failed: a network error, an HTTP
\* error status, a body that broke off or, for a search, a metadata status
\* other than "200"
RemoteFailure ==
    /\ call # << >>
    /\ call[1].requested
    /\ \/ /\ call[1].fn = "search_documents"
          /\ \/ call[1].args[4].kind # "json"
             \/ metadata_status(call[1].args[4].data) # "200"
       \/ /\ call[1].fn = "download_document"
          /\ call[1].args[1] # "ok"

(***************************************************************************)
(* C22: when the remote call of search_documents or download_document      *)
(* fails (network error or HTTP error status) or, for a search, the        *)
(* metadata status is not "200", the operation raises EdinetAPIError and   *)
(* returns nothing; no other error kind is raised once the request has     *)
(* been sent.                                                              *)
(***************************************************************************)
C22_SingleErrorKind ==
    /\ RemoteFailure => err.kind = "EdinetAPIError" /\ ret = << >>
    /\ call # << >> /\ call[1].requested => err.kind \in {"none", "EdinetAPIError"}

C22_Witness ==
    /\ ClientCalled("search_documents")
    /\ RemoteFailure
    /\ call[1].args[4].kind = "json"
    /\ metadata_status(call[1].args[4].data) = "404"
    /\ err.kind = "EdinetAPIError"
    /\ Len(requests) = 2

\* a filter is supplied when it is neither None nor the empty string
Supplied(f) == f # NoText /\ Len(f) > 0

FirstFour(t) == [k \in 1..(IF Len(t) < 4 THEN Len(t) ELSE 4) |-> t[k]]

\* the record passes every supplied filter
PassesFilters(r, sec, ordinance, form) ==
    /\ Supplied(sec) =>
          /\ "secCode" \in DOMAIN r
          /\ Supplied(r.secCode)
          /\ FirstFour(r.secCode) = FirstFour(sec)
    /\ Supplied(ordinance) => "ordinanceCode" \in DOMAIN r /\ r.ordinanceCode = ordinance
    /\ Supplied(form) => "formCode" \in DOMAIN r /\ r.formCode = form

\* the records of l that pass, in the order of l
RECURSIVE Kept(_, _, _, _)
Kept(l, sec, ordinance, form) ==
    IF l = << >> THEN << >>
    ELSE IF PassesFilters(Head(l), sec, ordinance, form)
         THEN <<Head(l)>> \o Kept(Tail(l), sec, ordinance, form)
         ELSE Kept(Tail(l), sec, ordinance, form)

\* the last call was a search that was answered with metadata status "200"
SearchSucceeded ==
    /\ ClientCalled("search_documents")
    /\ call[1].requested
    /\ call[1].args[4].kind = "json"
    /\ metadata_status(call[1].args[4].data) = "200"

ApiResults == IF "results" \in DOMAIN call[1].args[4].data
              THEN call[1].args[4].data.results ELSE << >>

(***************************************************************************)
(* C23: on a successful response search_documents returns exactly the      *)
(* records of the API result list, in their original order, that pass      *)
(* every supplied filter (secCode present and equal on the first 4         *)
(* characters, ordinanceCode and formCode equal); a 4-digit and a 5-digit  *)
(* sec_code select the same records, and with no filter the list is        *)
(* returned unchanged.                                                     *)
(***************************************************************************)
C23_FilteredInOrder ==
    SearchSucceeded =>
        /\ err = NoError
        /\ ret = <<Kept(ApiResults, call[1].args[1], call[1].args[2], call[1].args[3])>>
        /\ call[1].args[1] \in {Code5819, Code58190} =>
              ret[1] = Kept(ApiResults, Code5819, call[1].args[2], call[1].args[3])
        /\ (\A k \in 1..3 : ~Supplied(call[1].args[k])) => ret[1] = ApiResults

C23_Witness ==
    /\ SearchSucceeded
    /\ call[1].args[1] = Code5819
    /\ call[1].args[2] = NoText
    /\ call[1].args[3] = Form030000
    /\ ApiResults = <<DocC, DocA>>
    /\ ret = <<(<<DocC, DocA>>)>>

(***************************************************************************)
(* extract_financial_data (edinet.py lines 163-291)                        *)
(*                                                                         *)
(* A directory is [top, sub]: the files matching jpcrp030000-asr-*.csv in  *)
(* the directory and in its XBRL_TO_CSV subdirectory, in the order glob    *)
(* yields them.  A file is [name, header, rows]; header tells whether it   *)
(* has a header line; a row is [elem, ctx, value, short], short when it    *)
(* has fewer cells than the header.  A context id is the sequence of its   *)
(* parts, "CurrentYearDuration_NonConsolidatedMember" being                *)
(* <<"CurrentYear", "Duration", "NonConsolidatedMember">>.  A cell is      *)
(* [kind, n]: an integer numeral, a dash or the empty text.  The metric    *)
(* and year labels stand for the source's Japanese strings.                *)
(***************************************************************************)
NetSales == "jpcrp_cor:NetSalesSummaryOfBusinessResults"
DividendPaid == "jpcrp_cor:DividendPaidPerShareSummaryOfBusinessResults"
OtherElement == "jpcrp_cor:CompanyNameCoverPage"

\* one entry of each table stands for the table: the 16 summary elements
\* are treated alike, and so are the 2 dividend elements
_SUMMARY_ELEMENTS == [e \in {NetSales} |-> "net_sales"]
_NON_CONSOLIDATED_ELEMENTS == [e \in {DividendPaid} |-> "dividend_per_share"]

\* the items of _CONTEXT_YEAR_MAP, in the dict's order
_CONTEXT_YEAR_MAP ==
    << <<"Prior4Year", "prior4">>, <<"Prior3Year", "prior3">>,
       <<"Prior2Year", "prior2">>, <<"Prior1Year", "prior1">>,
       <<"CurrentYear", "current">> >>

YearLabels == {_CONTEXT_YEAR_MAP[k][2] : k \in DOMAIN _CONTEXT_YEAR_MAP}

NoValue == [kind |-> "None", n |-> 0]

\* _parse_value: None for the empty text and the dash, else the number
_parse_value(value) == IF value.kind \in {"empty", "dash"} THEN NoValue ELSE value

\* context_id.startswith(ctx_prefix)
startswith(context_id, ctx_prefix) == context_id # << >> /\ context_id[1] = ctx_prefix

\* "NonConsolidated" in context_id
non_consolidated(context_id) ==
    \E k \in DOMAIN context_id : context_id[k] = "NonConsolidatedMember"

\* a plausible slip: the first matching row is kept
summary_setdefault(year, key, v) == IF key \in DOMAIN year THEN year ELSE Put(year, key, <<v>>)

\* summary[year_label][key] = v
summary_set(year, key, v) == Put(year, key, <<v>>)

\* lines 268-274 and 278-284: the loop over _CONTEXT_YEAR_MAP.items()
RECURSIVE year_loop(_, _, _, _, _)
year_loop(k, summary, row, key, individual) ==
    IF k > Len(_CONTEXT_YEAR_MAP) THEN summary
    ELSE LET ctx_prefix == _CONTEXT_YEAR_MAP[k][1]
             year_label == _CONTEXT_YEAR_MAP[k][2]
             hit == /\ startswith(row.ctx, ctx_prefix)
                    /\ non_consolidated(row.ctx) = individual
         IN  year_loop(k + 1,
                       IF hit
                       THEN [summary EXCEPT ![year_label] =
                               summary_set(@, key, _parse_value(row.value))]
                       ELSE summary,
                       row, key, individual)

\* lines 261-284: the loop over the rows
RECURSIVE row_loop(_, _)
row_loop(rows, summary) ==
    IF rows = << >> THEN summary
    ELSE LET row == Head(rows)
             s1 == IF row.elem \in DOMAIN _SUMMARY_ELEMENTS
                   THEN year_loop(1, summary, row, _SUMMARY_ELEMENTS[row.elem], FALSE)
                   ELSE summary
             s2 == IF row.elem \in DOMAIN _NON_CONSOLIDATED_ELEMENTS
                   THEN year_loop(1, s1, row, _NON_CONSOLIDATED_ELEMENTS[row.elem], TRUE)
                   ELSE s1
         IN  row_loop(Tail(rows), s2)

\* _parse_edinet_csv: StopIteration when there is no header line; rows
\* shorter than the header are left out
_parse_edinet_csv(f) ==
    IF ~f.header THEN Raise("StopIteration", {})
    ELSE Return(SelectSeq(f.rows, LAMBDA row : ~row.short))

extract_financial_data(dir) ==
    LET csv_files == dir.top \o dir.sub
    IN  IF csv_files = << >> THEN Raise("EdinetAPIError", {"csv_dir"})
        ELSE LET csv_path == csv_files[1]
                 rows == _parse_edinet_csv(csv_path)
             IN  IF ~Returned(rows) THEN rows
                 ELSE Return([source |-> csv_path.name,
                              summary |-> row_loop(rows.ret[1],
                                                   [y \in YearLabels |-> << >>])])

(***************************************************************************)
(* One extraction from a directory of exported files                       *)
(***************************************************************************)
Contexts ==
    {<<"CurrentYear", "Duration">>,
     <<"CurrentYear", "Duration", "NonConsolidatedMember">>,
     <<"Prior1Year", "Duration">>,
     <<"Prior1Year", "Instant", "NonConsolidatedMember">>,
     <<"FilingDate", "Instant">>}

Cells == {[kind |-> "int", n |-> 1], [kind |-> "int", n |-> 2]}

CsvRows ==
    [elem : {NetSales, DividendPaid, OtherElement}, ctx : Contexts, value : Cells,
     short : {FALSE}]
    \cup {[elem |-> NetSales, ctx |-> <<"CurrentYear", "Duration">>,
           value |-> [kind |-> "dash", n |-> 0], short |-> FALSE],
          [elem |-> NetSales, ctx |-> <<"CurrentYear", "Duration">>,
           value |-> [kind |-> "int", n |-> 2], short |-> TRUE],
          [elem |-> NetSales, ctx |-> << >>,
           value |-> [kind |-> "empty", n |-> 0], short |-> FALSE]}

RowLists == {<< >>} \cup {<<a>> : a \in CsvRows} \cup {<<a, b>> : a \in CsvRows, b \in CsvRows}

CsvFiles == {[name |-> "asr-1", header |-> TRUE, rows |-> l] : l \in RowLists}
            \cup {[name |-> "asr-1", header |-> FALSE, rows |-> << >>]}

\* a second file, found after the first one or in the other place
OtherFile == [name |-> "asr-2", header |-> TRUE,
              rows |-> <<[elem |-> NetSales, ctx |-> <<"Prior1Year", "Duration">>,
                          value |-> [kind |-> "int", n |-> 1], short |-> FALSE]>>]

Directories ==
    {[top |-> << >>, sub |-> << >>]}
    \cup {[top |-> <<f>>, sub |-> << >>] : f \in CsvFiles}
    \cup {[top |-> << >>, sub |-> <<f>>] : f \in CsvFiles}
    \cup {[top |-> <<OtherFile>>, sub |-> <<f>>] : f \in CsvFiles}
    \cup {[top |-> << >>, sub |-> <<OtherFile, f>>] : f \in CsvFiles}

ExtractFinancialData ==
    /\ pc = "idle"
    /\ call = << >>
    /\ \E dir \in Directories :
          \E o \in {extract_financial_data(dir)} :
             /\ call' = <<[fn |-> "extract_financial_data", args |-> <<dir>>]>>
             /\ ret' = o.ret
             /\ err' = o.err
    /\ UNCHANGED <<raw, pc, inp, res, file, log, now, requests>>

NextExtract == ExtractFinancialData

SpecExtract == InitClient /\ [][NextExtract]_vars

\* the file the extraction reads: the first one of the directory itself,
\* else the first one of the subdirectory
ChosenFile ==
    IF call[1].args[1].top # << >> THEN call[1].args[1].top[1]
    ELSE call[1].args[1].sub[1]

YearPrefix ==
    [current |-> "CurrentYear", prior1 |-> "Prior1Year", prior2 |-> "Prior2Year",
     prior3 |-> "Prior3Year", prior4 |-> "Prior4Year"]

\* the row is a source of metric m of year y
RowFeeds(row, y, m) ==
    /\ ~row.short
    /\ row.ctx # << >>
    /\ row.ctx[1] = YearPrefix[y]
    /\ \/ /\ row.elem = NetSales
          /\ m = "net_sales"
          /\ \A k \in DOMAIN row.ctx : row.ctx[k] # "NonConsolidatedMember"
       \/ /\ row.elem = DividendPaid
          /\ m = "dividend_per_share"
          /\ \E k \in DOMAIN row.ctx : row.ctx[k] = "NonConsolidatedMember"

LastOf(S) == CHOOSE k \in S : \A j \in S : j <= k

MainRun(calls, stdout, stderr, raised, code) ==
    [calls |-> calls, stdout |-> stdout, stderr |-> stderr, raised |-> raised,
     code |-> code]

Op(fn, args) == [fn |-> fn, args |-> args]

\* a plausible slip: only the client's own error class is handled
handled_edinet_only(kind) == kind = "EdinetAPIError"

\* lines 170-181: the exception classes the outer try handles
handled(kind) == kind \in {"EdinetAPIError", "FileNotFoundError"}

\* an operation called by main raised: the handlers print an error object
\* to stderr and call sys.exit(1); any other class escapes
main_raise(calls, kind, in_valuation) ==
    IF (in_valuation /\ kind = "ValuationError") \/ handled(kind)
    THEN MainRun(calls, << >>, <<"error">>, "SystemExit", 1)
    ELSE MainRun(calls, << >>, <<"traceback">>, kind, 1)

\* the operation returned: its result is printed
main_print(calls, value) ==
    MainRun(calls, <<[kind |-> "result", value |-> value]>>, << >>, "none", 0)

\* one operation, then the print of what it returned
main_single(op, effect) ==
    IF Returned(effect) THEN main_print(<<op>>, effect.ret[1])
    ELSE main_raise(<<op>>, effect.err.kind, FALSE)

\* lines 131-147: with --output the data goes to that file and the file's
\* name is printed
main_extract(args, effect) ==
    LET op == Op("extract_financial_data", <<args.csv_dir>>)
    IN  IF ~Returned(effect) THEN main_raise(<<op>>, effect.err.kind, FALSE)
        ELSE IF args.output # "None" THEN main_print(<<op>>, args.output)
        ELSE main_print(<<op>>, effect.ret[1])

main(args, effects) ==
    IF args.command = "invalid"
    THEN MainRun(<< >>, << >>, <<"usage">>, "SystemExit", 2)
    ELSE IF args.command = "valuation"
    THEN LET load == Op("load_input", <<args.input_file>>)
         IN  IF ~Returned(effects[1]) THEN main_raise(<<load>>, effects[1].err.kind, TRUE)
             ELSE LET calc == Op("calculate_valuation", <<effects[1].ret[1]>>)
                  IN  IF ~Returned(effects[2])
                      THEN main_raise(<<load, calc>>, effects[2].err.kind, TRUE)
                      ELSE main_print(<<load, calc,
                                        Op("format_output", <<effects[2].ret[1]>>)>>,
                                      effects[2].ret[1])
    ELSE IF args.command = "build-report"
    THEN main_single(Op("build_report", <<args.report_dir, args.no_charts, args.no_toc>>),
                     effects[1])
    ELSE IF args.command = "edinet"
    THEN IF args.edinet_command = "search"
         THEN main_single(Op("search_documents",
                             <<args.date, args.sec_code, args.ordinance_code,
                               args.form_code>>), effects[1])
         ELSE IF args.edinet_command = "extract"
         THEN main_extract(args, effects[1])
         ELSE IF args.edinet_command = "download"
         THEN main_single(Op("download_document",
                             <<args.doc_id, args.type, args.output>>), effects[1])
         ELSE MainRun(<< >>, <<[kind |-> "help", value |-> "edinet"]>>, << >>,
                      "SystemExit", 1)
    ELSE MainRun(<< >>, <<[kind |-> "help", value |-> "top"]>>, << >>, "SystemExit", 1)

(***************************************************************************)
(* One run of main                                                         *)
(***************************************************************************)
CommandLines ==
    {[command |-> "none"], [command |-> "invalid"],
     [command |-> "edinet", edinet_command |-> "none"]}
    \cup [command : {"edinet"}, edinet_command : {"search"},
          date : {"2025-03-27", "2025-03-28"}, sec_code : {"None", "5819"},
          ordinance_code : {"None", "010"}, form_code : {"None", "030000"}]
    \cup [command : {"edinet"}, edinet_command : {"extract"}, csv_dir : {"dir"},
          output : {"None", "out.json"}]
    \cup [command : {"edinet"}, edinet_command : {"download"}, doc_id : {"S100XXXX"},
          type : {"1", "5"}, output : {"out.zip"}]
    \cup [command : {"valuation"}, input_file : {"input.json"}]
    \cup [command : {"build-report"}, report_dir : {"report"}, no_charts : BOOLEAN,
          no_toc : BOOLEAN]

Effects ==
    {Return("value")}
    \cup {Raise(k, {}) : k \in {"EdinetAPIError", "FileNotFoundError", "ValuationError",
                                "AttributeError"}}

\* the operations main may call for the command line
OperationsOf(args) ==
    IF args.command = "valuation" THEN 2
    ELSE IF args.command \in {"none", "invalid"} THEN 0
    ELSE IF args.command = "edinet" /\ args.edinet_command = "none" THEN 0
    ELSE 1

Main ==
    /\ pc = "idle"
    /\ call = << >>
    /\ \E args \in CommandLines :
          \E effects \in [1..OperationsOf(args) -> Effects] :
             \E o \in {main(args, effects)} :
                /\ call' = <<[fn |-> "main", args |-> <<args, effects>>, run |-> o]>>
                /\ err' = IF o.raised = "none" THEN NoError ELSE [kind |-> o.raised, names |-> {}]
                /\ ret' = << >>
    /\ UNCHANGED <<raw, pc, inp, res, file, log, now, requests>>

NextCli == Main

SpecCli == InitClient /\ [][NextCli]_vars

MainCalled == ClientCalled("main")

\* the operation the command line selects, with the parsed arguments
SelectedOp ==
    LET args == call[1].args[1]
    IN  IF args.command = "valuation"
        THEN Op("calculate_valuation", <<"value">>)
        ELSE IF args.command = "build-report"
        THEN Op("build_report", <<args.report_dir, args.no_charts, args.no_toc>>)
        ELSE IF args.edinet_command = "search"
        THEN Op("search_documents",
                <<args.date, args.sec_code, args.ordinance_code, args.form_code>>)
        ELSE IF args.edinet_command = "extract"
        THEN Op("extract_financial_data", <<args.csv_dir>>)
        ELSE Op("download_document", <<args.doc_id, args.type, args.output>>)

\* the class of the first exception an operation of the run raised
FirstFailure ==
    LET effects == call[1].args[2]
        failed == {k \in DOMAIN effects : effects[k].err.kind # "none"}
    IN  IF failed = {} THEN "none"
        ELSE effects[CHOOSE k \in failed : \A j \in failed : k <= j].err.kind

ExitsWithOne == call[1].run.raised = "SystemExit" /\ call[1].run.code = 1

NoResultPrinted ==
    \A k \in DOMAIN call[1].run.stdout : call[1].run.stdout[k].kind # "result"

(***************************************************************************)
(* C25: main ends through sys.exit(1) when no command is given, when       *)
(* edinet is given without a subcommand, and when the dispatched operation *)
(* raises EdinetAPIError, FileNotFoundError or, under the valuation        *)
(* command, ValuationError; in these cases no result is printed to         *)
(* stdout.  When every operation returns, the selected operation has been  *)
(* called exactly once, with the parsed arguments.                         *)
(***************************************************************************)
C25_ExitStatus ==
    MainCalled =>
        LET args == call[1].args[1]
            run == call[1].run
        IN  /\ args.command = "none" => ExitsWithOne /\ NoResultPrinted /\ run.calls = << >>
            /\ (args.command = "edinet" /\ args.edinet_command = "none") =>
                  ExitsWithOne /\ NoResultPrinted /\ run.calls = << >>
            /\ FirstFailure \in {"EdinetAPIError", "FileNotFoundError"} =>
                  ExitsWithOne /\ NoResultPrinted
            /\ (args.command = "valuation" /\ FirstFailure = "ValuationError") =>
                  ExitsWithOne /\ NoResultPrinted
            /\ (OperationsOf(args) > 0 /\ FirstFailure = "none") =>
                  /\ run.raised = "none"
                  /\ Cardinality({k \in DOMAIN run.calls : run.calls[k] = SelectedOp}) = 1
                  /\ Cardinality({k \in DOMAIN run.calls :
                                     run.calls[k].fn = SelectedOp.fn}) = 1
                  /\ ~NoResultPrinted

C25_Witness ==
    /\ MainCalled
    /\ call[1].args[1].command = "build-report"
    /\ FirstFailure = "FileNotFoundError"
    /\ ExitsWithOne
    /\ call[1].run.stdout = << >>
    /\ Len(call[1].run.calls) = 1

\* fcf * (1 + growth)^k
GrownFcf(fcf, growth, k) == RMul(fcf, RPow(RAdd(One, growth), k))

\* sum over year 1..k of fcf * (1 + growth)^year / (1 + discount)^year
RECURSIVE DiscountedSum(_, _, _, _)
DiscountedSum(fcf, growth, discount, k) ==
    IF k <= 0 THEN Zero
    ELSE RAdd(DiscountedSum(fcf, growth, discount, k - 1),
              RDiv(GrownFcf(fcf, growth, k), RPow(RAdd(One, discount), k)))

\* a direct call of _calc_dcf_scenario that took the nonzero-growth branch
\* and returned
GrowthBranchReturned ==
    /\ Called("_calc_dcf_scenario")
    /\ call[1].args[2] # Zero
    /\ err = NoError

(***************************************************************************)
(* C26: in the nonzero-growth branch of _calc_dcf_scenario, after k loop   *)
(* iterations the projected cash flow is fcf * (1 + growth)^k and the      *)
(* accumulator is the sum over year 1..k of                                *)
(* fcf * (1 + growth)^year / (1 + discount)^year; the reported terminal    *)
(* value is the last projected cash flow divided by the discount rate,     *)
(* undiscounted, and equity value = accumulator + terminal value /         *)
(* (1 + discount)^horizon + net_cash.                                      *)
(***************************************************************************)
C26_LoopClosedForm ==
    GrowthBranchReturned =>
        LET fcf == call[1].args[1]
            growth == call[1].args[2]
            discount == call[1].args[3]
            years == call[1].args[4]
            net_cash == call[1].args[5]
            n == IF years < 0 THEN 0 ELSE years
        IN  /\ \A k \in 0..n :
                  dcf_loop(1, k, fcf, Zero, growth, discount)
                     = <<GrownFcf(fcf, growth, k), DiscountedSum(fcf, growth, discount, k)>>
            /\ ret[1].terminal_value = RDiv(GrownFcf(fcf, growth, n), discount)
            /\ ret[1].equity_value
                  = RAdd(RAdd(DiscountedSum(fcf, growth, discount, n),
                              RDiv(ret[1].terminal_value,
                                   RPow(RAdd(One, discount), years))),
                         net_cash)

C26_Witness ==
    /\ GrowthBranchReturned
    /\ call[1].args[1] = I(4)
    /\ call[1].args[2] = R(1, 2)
    /\ call[1].args[3] = R(1, 2)
    /\ call[1].args[4] = 2
    /\ ret[1].terminal_value = I(18)

(***************************************************************************)
(* Inputs whose intermediate values have more decimals than the result     *)
(* reports: a market cap of 1.005, a NOPAT of 5.625, a forecast P/E of     *)
(* 201/7, a growth rate of 0.125                                           *)
(***************************************************************************)
InitRounding ==
    \E price \in Ints({2, 201}), out \in Ints({5000, 7000}),
       ocf \in {R(1, 10), I(5)}, tax \in {R(1, 16), R(1, 2)},
       ef \in Opt(Ints({7})), gm \in {R(1, 8), R(1, 2)} :
        raw = Put([BaseRaw EXCEPT !.stock_price = price, !.shares_outstanding = out,
                                  !.shares_unit = "shares", !.operating_cf = ocf,
                                  !.effective_tax_rate = tax, !.dcf_growth_middle = gm],
                  "eps_forecast", ef)

InitRounded ==
    /\ InitRounding
    /\ pc = "raw"
    /\ inp = << >>
    /\ err = NoError
    /\ res = << >>
    /\ call = << >>
    /\ ret = << >>
    /\ file = "none"
    /\ log = {}
    /\ now = 0
    /\ requests = << >>

SpecRounding == InitRounded /\ [][Next]_vars

\* q, in lowest terms, has at most k decimals: its denominator divides 10^k
\* (an undefined value has none)
Decimals(q, k) == IsNone(q) \/ (q = Norm(q[1], q[2]) /\ IPow10(k) % q[2] = 0)

\* price * shares / 1,000,000 of the normalized input, unrounded
ExactMarketCap == RDiv(RMul(inp[1].stock_price, inp[1].shares), I(1000000))

\* the reported ratios are the roundings of the ratios of the unrounded
\* intermediate values
RoundedFromExact ==
    LET i == inp[1]
        r == res[1]
    IN  /\ r.stock_price = i.stock_price
        /\ r.shares = i.shares
        /\ r.market_cap = Round(ExactMarketCap, 2)
        /\ ~IsNone(r.pcr) => r.pcr = Round(RDiv(ExactMarketCap, i.operating_cf), 2)
        /\ ~IsNone(r.psr) => r.psr = Round(RDiv(ExactMarketCap, i.revenue), 2)
        /\ ~IsNone(r.ev_ebitda) =>
              r.ev_ebitda = Round(RDiv(RSub(ExactMarketCap, i.net_cash), i.ebitda), 2)
        /\ ~IsNone(r.roic) =>
              r.roic = Round(RDiv(RMul(i.operating_profit, RSub(One, i.effective_tax_rate)),
                                  RSub(i.net_assets, i.net_cash)), 4)
        /\ ~IsNone(r.per_x_pbr) =>
              r.per_x_pbr = Round(RMul(RDiv(i.stock_price, i.eps_forecast),
                                       RDiv(i.stock_price, i.bps)), 2)

\* the decimals of the reported fields other than the growth rates
StatedDecimals ==
    LET r == res[1]
    IN  /\ \A f \in {"market_cap", "per_actual", "per_forecast", "pbr", "pcr", "psr",
                     "per_x_pbr", "ev_ebitda", "nopat", "invested_capital"} :
               Decimals(r[f], 2)
        /\ \A f \in {"dividend_yield", "roic", "liquidation_discount"} : Decimals(r[f], 4)
        /\ \A n \in 1..3 :
               /\ Decimals(r.dcf[n].terminal_value, 2)
               /\ Decimals(r.dcf[n].equity_value, 2)
               /\ Decimals(r.dcf[n].per_share, 0)
               /\ Decimals(r.dcf[n].upside, 4)

(***************************************************************************)
(* C27 as stated: rounding happens only when calculate_valuation builds    *)
(* its result; the ratios come from unrounded intermediates; stock_price   *)
(* and shares pass through; dividend_yield, roic, liquidation_discount and *)
(* upside carry 4 decimals, per_share none, and every other numeric field, *)
(* the scenarios' growth_rate among them, carries 2 decimals.              *)
(***************************************************************************)
C27_TwoDecimalsEverywhereElse ==
    Valued =>
        /\ RoundedFromExact
        /\ StatedDecimals
        /\ \A n \in 1..3 : Decimals(res[1].dcf[n].growth_rate, 2)

(***************************************************************************)
(* C27, amended: as above, except that the scenarios' growth_rate passes   *)
(* through unrounded (0, dcf_growth_middle, dcf_growth_strong), and that   *)
(* per_share and upside are already rounded in what _calc_dcf_scenario     *)
(* returns, whose terminal_value and equity_value are unrounded.           *)
(***************************************************************************)
C27_RoundingAtAssembly ==
    /\ Valued =>
          /\ RoundedFromExact
          /\ StatedDecimals
          /\ res[1].dcf[1].growth_rate = Zero
          /\ res[1].dcf[2].growth_rate = inp[1].dcf_growth_middle
          /\ res[1].dcf[3].growth_rate = inp[1].dcf_growth_strong
    /\ (Called("_calc_dcf_scenario") /\ ret # << >>) =>
          /\ Decimals(ret[1].per_share, 0)
          /\ Decimals(ret[1].upside, 4)
          /\ ret[1].growth_rate = call[1].args[2]
          /\ ret[1].per_share
                = Round(RMul(ret[1].equity_value, RDiv(I(1000000), call[1].args[6])), 0)

C27_Witness ==
    /\ Valued
    /\ ExactMarketCap = R(201, 200)
    /\ res[1].market_cap = One
    /\ res[1].pcr = R(201, 20)
    /\ res[1].roic = R(15, 16)
    /\ res[1].nopat = R(281, 50)
    /\ res[1].dcf[2].growth_rate = R(1, 8)

\* 2^k
RECURSIVE TwoTo(_)
TwoTo(k) == IF k <= 0 THEN 1 ELSE 2 * TwoTo(k - 1)

(***************************************************************************)
(* C28: a call of _calc_dcf_scenario ends, returning or raising; its loop  *)
(* runs exactly `horizon` times for a horizon >= 0 and not at all for a    *)
(* negative one (a cash flow of 1 doubling each year ends at 2^horizon,    *)
(* and the reported terminal value times the discount rate is the cash     *)
(* flow compounded horizon times); with horizon 0 the nonzero-growth       *)
(* branch gives the terminal value and the equity value of the zero-growth *)
(* branch.                                                                 *)
(***************************************************************************)
C28_ExactlyHorizonIterations ==
    /\ Called("_calc_dcf_scenario") => (ret # << >> <=> err = NoError)
    /\ GrowthBranchReturned =>
          LET fcf == call[1].args[1]
              growth == call[1].args[2]
              discount == call[1].args[3]
              years == call[1].args[4]
              n == IF years < 0 THEN 0 ELSE years
          IN  /\ dcf_loop(1, years, One, Zero, One, One)[1] = I(TwoTo(n))
              /\ RMul(ret[1].terminal_value, discount) = GrownFcf(fcf, growth, n)
              /\ years = 0 =>
                    /\ ret[1].terminal_value = RDiv(fcf, discount)
                    /\ ret[1].equity_value = RAdd(RDiv(fcf, discount), call[1].args[5])
                    /\ <<ret[1].terminal_value, ret[1].equity_value>>
                          = dcf_zero_growth(fcf, discount, call[1].args[5])

C28_Witness ==
    /\ GrowthBranchReturned
    /\ call[1].args[4] = 0
    /\ call[1].args[1] = I(4)
    /\ call[1].args[2] = One
    /\ call[1].args[5] = I(3)
    /\ ret[1].terminal_value = I(8)
    /\ ret[1].equity_value = I(11)

(***************************************************************************)
(* Inputs that meet the preconditions of the engine: positive price,       *)
(* shares and discount rate, a nonzero book value per share, a horizon     *)
(* >= 0; aggregates of every sign, optional per-share fields absent or     *)
(* present; short horizons and a long one                                  *)
(***************************************************************************)
InitPreconditions ==
    \E a \in {-1, 0, 1}, b \in {-1, 0, 1}, bps \in Ints({-4, 4}),
       ea \in Opt(Ints({1})), ef \in Opt(Ints({2})), dv \in Opt(Ints({1})),
       lq \in Opt(Ints({4})),
       horizon \in {<<R(1, 2), 0>>, <<R(1, 2), 2>>, <<One, 2>>, <<One, 1024>>} :
        raw = Put(Put(Put(Put(
                  [BaseRaw EXCEPT !.bps = bps,
                                  !.revenue = I(10 * a), !.operating_profit = I(6 * a),
                                  !.operating_cf = I(5 * a),
                                  !.fcf = I(4 * b), !.net_cash = I(3 * b),
                                  !.ebitda = I(8 * b), !.net_assets = I(9 * b),
                                  !.discount_rate = horizon[1], !.dcf_years = horizon[2]],
                  "eps_actual", ea), "eps_forecast", ef), "dividend_annual", dv),
                  "liquidation_value_per_share", lq)

InitTotality ==
    /\ InitPreconditions
    /\ pc = "raw"
    /\ inp = << >>
    /\ err = NoError
    /\ res = << >>
    /\ call = << >>
    /\ ret = << >>
    /\ file = "none"
    /\ log = {}
    /\ now = 0
    /\ requests = << >>

SpecTotality == InitTotality /\ [][Next]_vars

\* the normalized input meets the stated preconditions
Preconditions ==
    /\ Normalized
    /\ RLt(Zero, inp[1].stock_price)
    /\ RLt(Zero, inp[1].shares)
    /\ RLt(Zero, inp[1].discount_rate)
    /\ inp[1].bps # Zero
    /\ inp[1].dcf_years >= 0

(***************************************************************************)
(* C29: for every normalized input with stock_price > 0, shares > 0,       *)
(* discount_rate > 0, bps # 0 and dcf_years >= 0, calculate_valuation      *)
(* returns a full result and raises no error, whatever the signs of the    *)
(* aggregates and whichever optional per-share fields are absent.          *)
(***************************************************************************)
C29_TotalUnderPreconditions ==
    /\ Preconditions => ~ValuationFailed
    /\ (Preconditions /\ Valued) => (err = NoError /\ DOMAIN res[1] = ResultKeys)

=============================================================================
